---- MODULE Spec2Model ----
(***************************************************************************)
(* A model of the result-recording core of deepneat:                       *)
(*   - the gob codec of Experiment / Trial / Generation / Organism         *)
(*     (experiment/experiment.go, experiment/generation.go);               *)
(*   - the per-epoch statistics and the experiment analytics.              *)
(* A gob stream is a sequence of typed messages; a message carries its     *)
(* wire type, its value and (as a ghost) the field that wrote it.          *)
(***************************************************************************)
EXTENDS Integers, Sequences, FiniteSets, TLC

\* ---------------------------------------------------------------- bounds
MaxTrials == 2
MaxGens == 2

VARIABLES
    exp,      \* the Experiment that is written
    stream,   \* the gob messages written by Experiment.Write
    pc,       \* "init", "encoded", "decoding", "unwinding", "done", "failed"
    cur,      \* the decoder's position in the code: level, field, trial, generation
    pos,      \* number of messages the gob decoder has consumed
    dst,      \* the receiver of Experiment.Read
    trial,    \* Experiment.Decode's local `trial`
    gen,      \* Trial.Decode's local `gen`
    org,      \* decodeOrganism's local `org`
    genId,    \* decodeOrganism's local `genId`
    err,      \* the error being returned (NoErr when nil)
    last,     \* ghost: the target and the origin of the last successful dec.Decode
    \* -- one epoch: Generation.FillPopulationStatistics and Generation.Average
    epoch,    \* the Generation of the epoch
    pop,      \* the population snapshot (FillPopulationStatistics sorts its species)
    ephase,   \* "new" before FillPopulationStatistics, "filled" after it
    eavg,     \* what Average returned: <<>> before the call
    \* -- the analytics of an Experiment
    ana,      \* the Experiment the analytics are computed over
    rate,     \* what SuccessRate returned: <<>> before the call
    \* -- the efficiency score of an Experiment
    sexp,     \* the Experiment EfficiencyScore is called on
    sres,     \* what the calls of EfficiencyScore returned, first call first
    scopy,    \* ghost: the range copies `t` as the last call left them
    \* -- the average epoch duration of an Experiment
    dexp,     \* the Experiment AvgEpochDuration is called on
    dres,     \* what AvgEpochDuration returned: <<>> before the call
    \* -- the best organism of an Experiment
    bexp,     \* the Experiment BestOrganism is called on
    barg,     \* the argument onlySolvers of the call: <<>> before it
    bres,     \* what BestOrganism returned: <<>> before the call
    \* -- the numeric export of an Experiment
    nexp,     \* the Experiment WriteNPZ is called on
    npc,      \* "idle", "writing", "returned", "panicked"
    nmat,     \* the shape of the three matrices of fitnessAgeComplexityMat
    nout,     \* the arrays the archive holds, in the order written
    nk,       \* the number of out.Write calls made
    ncloses,  \* the number of out.Close calls made
    nret,     \* what WriteNPZ returned: <<>> before it returns
    \* -- the vectors
    vv,       \* the receiver v of Vector.Add / Vector.Dot
    vother,   \* the argument other
    vcall,    \* ghost: the operation called and its operands before the call
    vres,     \* what the call returned: <<>> before it
    \* -- the runner: main and its two goroutines
    rnum,     \* neatOptions.NumRuns
    rmain,    \* main: "go executor", "go handler", "receive", "waiting", "statistics", "fatal"
    rexec,    \* the executor goroutine: "unborn", "running", "send", "parked", "returned"
    rhandler, \* the handler goroutine: "unborn", "started", "select", "signalled", "returned"
    rq,       \* the receivers waiting on errChan, first come first
    rrun,     \* the trials exp.Execute has run
    rret,     \* what exp.Execute returned: "none" before
    rerr,     \* the variable err the three share
    rsig,     \* the termination signal: "none", "pending", "taken"
    rctx,     \* the context: "live" or "cancelled"
    \* -- the snake game (src/snake/snake.go)
    game,     \* the Game: Width, Height, Snake, Food, GameState
    gpc,      \* "GenerateFood" inside GenerateFood, "ready" between two calls of Update
    gprev     \* the latest Update: the length and the food it found, the new head it computed

codecVars == <<exp, stream, pc, cur, pos, dst, trial, gen, org, genId, err, last>>

epochVars == <<epoch, pop, ephase, eavg>>

anaVars == <<ana, rate>>

scoreVars == <<sexp, sres, scopy>>

durVars == <<dexp, dres>>

bestVars == <<bexp, barg, bres>>

npzVars == <<nexp, npc, nmat, nout, nk, ncloses, nret>>

vectorVars == <<vv, vother, vcall, vres>>

runnerVars == <<rnum, rmain, rexec, rhandler, rq, rrun, rret, rerr, rsig, rctx>>

snakeVars == <<game, gpc, gprev>>

nonCodecVars == <<epochVars, anaVars, scoreVars, durVars, bestVars, npzVars, vectorVars, runnerVars, snakeVars>>

nonEpochVars == <<codecVars, anaVars, scoreVars, durVars, bestVars, npzVars, vectorVars, runnerVars, snakeVars>>

nonAnaVars == <<codecVars, epochVars, scoreVars, durVars, bestVars, npzVars, vectorVars, runnerVars, snakeVars>>

nonScoreVars == <<codecVars, epochVars, anaVars, durVars, bestVars, npzVars, vectorVars, runnerVars, snakeVars>>

nonDurationVars == <<codecVars, epochVars, anaVars, scoreVars, bestVars, npzVars, vectorVars, runnerVars, snakeVars>>

nonBestVars == <<codecVars, epochVars, anaVars, scoreVars, durVars, npzVars, vectorVars, runnerVars, snakeVars>>

nonNpzVars == <<codecVars, epochVars, anaVars, scoreVars, durVars, bestVars, vectorVars, runnerVars, snakeVars>>

nonVectorVars == <<codecVars, epochVars, anaVars, scoreVars, durVars, bestVars, npzVars, runnerVars, snakeVars>>

nonRunnerVars == <<codecVars, epochVars, anaVars, scoreVars, durVars, bestVars, npzVars, vectorVars, snakeVars>>

nonSnakeVars == <<codecVars, epochVars, anaVars, scoreVars, durVars, bestVars, npzVars, vectorVars, runnerVars>>

vars == <<codecVars, epochVars, anaVars, scoreVars, durVars, bestVars, npzVars, vectorVars, runnerVars, snakeVars>>

\* ------------------------------------------------------------ data model
\* A pointer is a sequence of length at most one: <<>> is nil.
Nil == <<>>
Ref(x) == <<x>>
Deref(p) == p[1]

NoErr == [wrap |-> <<>>, cause |-> "nil", lvl |-> "none", field |-> "none"]

\* genetics.Genome, seen through its plain-text writer and reader.
Genome(id) == [Id |-> id, Genes |-> <<id + 1, id + 2>>]

GenomeWrite(g) == <<"genomestart">> \o g.Genes \o <<"genomeend">>

ReadGenomeOk(data) ==
    /\ Len(data) >= 2
    /\ data[1] = "genomestart"
    /\ data[Len(data)] = "genomeend"

ReadGenome(data, id) == [Id |-> id, Genes |-> SubSeq(data, 2, Len(data) - 1)]

ZeroOrganism ==
    [Fitness |-> 0, IsWinner |-> FALSE, Generation |-> 0, ExpectedOffspring |-> 0,
     Error |-> 0, Genotype |-> Nil, Species |-> Nil, Flag |-> 0]

ZeroGeneration ==
    [Id |-> 0, Executed |-> 0, Duration |-> 0, Champion |-> Nil, Solved |-> FALSE,
     Fitness |-> <<>>, Age |-> <<>>, Complexity |-> <<>>, Diversity |-> 0,
     WinnerEvals |-> 0, WinnerNodes |-> 0, WinnerGenes |-> 0, TrialId |-> 0]

ZeroTrial == [Generations |-> <<>>]

ZeroExperiment ==
    [Id |-> 0, Name |-> "", RandSeed |-> 0, Trials |-> <<>>, MaxFitnessScore |-> 0]

\* ----------------------------------------------------------- gob encoding
Msg(ty, val, lvl, t, g, name) ==
    [ty |-> ty, val |-> val, src |-> [lvl |-> lvl, t |-> t, g |-> g, name |-> name]]


\* The wire type gob gives a Go value: every signed integer (int, int64,
\* time.Duration) is sent as an int, time.Time through its GobEncoder.
GobType(name) ==
    CASE name \in {"Id", "Diversity", "WinnerEvals", "WinnerNodes", "WinnerGenes",
                   "Duration", "TrialId", "Generation", "genId", "tNum", "ngen"} -> "int"
      [] name = "Executed" -> "time"
      [] name \in {"Solved", "IsWinner"} -> "bool"
      [] name \in {"Fitness", "Age", "Complexity"} -> "floats"
      [] name \in {"ExpectedOffspring", "Error"} -> "float"
      [] name = "Name" -> "string"
      [] name = "data" -> "bytes"

GenEncodeOrderNodesGenesSwapped ==
    <<"Id", "Executed", "Solved", "Fitness", "Age", "Complexity", "Diversity",
      "WinnerEvals", "WinnerGenes", "WinnerNodes", "Duration", "TrialId">>

\* The order in which Generation.Encode writes the fields.
GenEncodeOrder ==
    <<"Id", "Executed", "Solved", "Fitness", "Age", "Complexity", "Diversity",
      "WinnerEvals", "WinnerNodes", "WinnerGenes", "Duration", "TrialId">>

\* The order in which encodeOrganism writes the scalar fields.
OrgEncodeOrder == <<"Fitness", "IsWinner", "Generation", "ExpectedOffspring", "Error">>

\* Organism.Fitness is a float64 (Generation.Fitness is a Floats).
OrgType(name) == IF name = "Fitness" THEN "float" ELSE GobType(name)

encodeOrganism(o, t, g) ==
    [k \in 1..Len(OrgEncodeOrder) |->
        Msg(OrgType(OrgEncodeOrder[k]), o[OrgEncodeOrder[k]], "org", t, g, OrgEncodeOrder[k])]
    \o (IF o.Genotype # Nil
        THEN <<Msg("int", Deref(o.Genotype).Id, "org", t, g, "genId"),
               Msg("bytes", GenomeWrite(Deref(o.Genotype)), "org", t, g, "data")>>
        ELSE <<>>)

GenerationEncode(gn, t, g) ==
    [k \in 1..Len(GenEncodeOrder) |->
        Msg(GobType(GenEncodeOrder[k]), gn[GenEncodeOrder[k]], "gen", t, g, GenEncodeOrder[k])]
    \o (IF gn.Champion # Nil THEN encodeOrganism(Deref(gn.Champion), t, g) ELSE <<>>)

RECURSIVE EncodeGenerations(_, _, _)
EncodeGenerations(gens, t, g) ==
    IF g > Len(gens) THEN <<>>
    ELSE GenerationEncode(gens[g], t, g) \o EncodeGenerations(gens, t, g + 1)

TrialEncode(tr, t) ==
    <<Msg("int", Len(tr.Generations), "trial", t, 0, "ngen")>>
    \o EncodeGenerations(tr.Generations, t, 1)

RECURSIVE EncodeTrials(_, _)
EncodeTrials(trials, t) ==
    IF t > Len(trials) THEN <<>>
    ELSE TrialEncode(trials[t], t) \o EncodeTrials(trials, t + 1)

ExperimentEncode(e) ==
    <<Msg("int", e.Id, "exp", 0, 0, "Id"),
      Msg("string", e.Name, "exp", 0, 0, "Name"),
      Msg("int", Len(e.Trials), "exp", 0, 0, "tNum")>>
    \o EncodeTrials(e.Trials, 1)

\* ------------------------------------------------------------- the inputs
SampleOrganism(t, g, withGenome) ==
    [Fitness |-> 70 + g, IsWinner |-> (g % 2 = 0), Generation |-> g,
     ExpectedOffspring |-> 80 + t, Error |-> 90 + g,
     Genotype |-> IF withGenome THEN Ref(Genome(10 * t + g)) ELSE Nil,
     Species |-> Ref([Age |-> 3]), Flag |-> 0]

\* kind: "full" (a champion with its genome), "nogenome" (a champion whose
\* Genotype is nil), "nil" (no champion).
SampleGeneration(t, g, kind) ==
    LET d == 1 + (g % 2)
    IN  [Id |-> g, Executed |-> 1000 + 10 * t + g, Duration |-> 500 + g,
         Champion |-> IF kind = "nil" THEN Nil
                      ELSE Ref(SampleOrganism(t, g, kind = "full")),
         Solved |-> (g % 2 = 0),
         Fitness |-> [i \in 1..d |-> 10 * i + 1],
         Age |-> [i \in 1..d |-> 10 * i + 2],
         Complexity |-> [i \in 1..d |-> 10 * i + 3],
         Diversity |-> d, WinnerEvals |-> 21, WinnerNodes |-> 22,
         WinnerGenes |-> 23, TrialId |-> t]

\* The number of generations of every trial.
Shapes == UNION {[1..n -> 0..MaxGens] : n \in 0..MaxTrials}

\* At most one generation of an experiment lacks its champion or its genome
\* (the decoder never gets past the first such generation).
Defects(shape) ==
    {<<0, 0, "full">>}
    \cup {<<t, g, k>> : t \in DOMAIN shape, g \in 1..MaxGens, k \in {"nil", "nogenome"}}

KindAt(defect, t, g) ==
    IF defect[1] = t /\ defect[2] = g THEN defect[3] ELSE "full"

MakeExperiment(shape, defect) ==
    [Id |-> 1, Name |-> "XOR", RandSeed |-> 42, MaxFitnessScore |-> 16,
     Trials |-> [t \in DOMAIN shape |->
        [Generations |-> [g \in 1..shape[t] |->
            SampleGeneration(t, g, KindAt(defect, t, g))]]]]

Experiments ==
    UNION {{MakeExperiment(shape, defect) :
                defect \in {d \in Defects(shape) : d[2] = 0 \/ d[2] <= shape[d[1]]}} :
           shape \in Shapes}

\* Experiment.Read is called on a fresh Experiment or on one used before.
UsedExperiment ==
    [Id |-> 9, Name |-> "old", RandSeed |-> 7, Trials |-> <<ZeroTrial>>,
     MaxFitnessScore |-> 3]

Receivers == {ZeroExperiment, UsedExperiment}

\* ----------------------------------------------------------- gob decoding
\* The fields Generation.Decode decodes into, in the order of its statements,
\* and the field name each failure is wrapped with.
GenDecodeOrderAgeComplexitySwapped ==
    <<"Id", "Executed", "Solved", "Fitness", "Complexity", "Age", "Diversity",
      "WinnerEvals", "WinnerNodes", "WinnerGenes", "Duration", "TrialId">>

GenDecodeOrder ==
    <<"Id", "Executed", "Solved", "Fitness", "Age", "Complexity", "Diversity",
      "WinnerEvals", "WinnerNodes", "WinnerGenes", "Duration", "TrialId">>

GenDecodeWrap ==
    <<"Id", "Executed", "Solved", "Fitness", "Age", "Complexity", "Diversity",
      "WinnerEvals", "WinnerNodes", "WinnerNodes", "Duration", "TrialId">>

\* The same for decodeOrganism.
OrgDecodeOrder ==
    <<"Fitness", "IsWinner", "Generation", "ExpectedOffspring", "Error", "genId", "data">>

OrgDecodeWrap ==
    <<"Fitness", "IsWinner", "Generation", "Generation", "Generation", "genId",
      "organism's data">>

\* The header fields of Experiment.Decode; their failures are returned unwrapped.
ExpDecodeOrder == <<"Id", "Name", "tNum">>

\* One dec.Decode(&x) with x of wire type ty. io: the reader fails.
\* A message of another type is consumed and rejected.
GobDecode(ty, io) ==
    IF io THEN [ok |-> FALSE, cause |-> "io", pos |-> pos]
    ELSE IF pos >= Len(stream) THEN [ok |-> FALSE, cause |-> "EOF", pos |-> pos]
    ELSE IF stream[pos + 1].ty # ty THEN [ok |-> FALSE, cause |-> "type", pos |-> pos + 1]
    ELSE [ok |-> TRUE, cause |-> "nil", pos |-> pos + 1]

Cursor(lvl, f, t, g) == [lvl |-> lvl, f |-> f, t |-> t, g |-> g]

Target(lvl, name) == [lvl |-> lvl, t |-> cur.t, g |-> cur.g, name |-> name]

\* A slice of length 0, to be grown by append.
MakeEmpty(zero, n) == <<>>

\* n zero values, as make([]T, n) gives.
Make(zero, n) == [i \in 1..n |-> zero]

NoRead == [lvl |-> "none", t |-> 0, g |-> 0, name |-> "none"]

MkErr(wrap, cause, lvl, field) ==
    [wrap |-> wrap, cause |-> cause, lvl |-> lvl, field |-> field]

ReturnPcSwallowed(lvl) == "decoding"

\* `if err != nil { return ... }`: where control goes when a step of the
\* function at level lvl fails. Experiment.Decode returns to the caller of
\* Read; the others return to the Decode that called them.
ReturnPc(lvl) == IF lvl = "exp" THEN "failed" ELSE "unwinding"

InitCodec ==
    /\ exp \in Experiments
    /\ dst \in Receivers
    /\ stream = <<>>
    /\ pc = "init"
    /\ cur = Cursor("none", 0, 0, 0)
    /\ pos = 0
    /\ trial = ZeroTrial
    /\ gen = ZeroGeneration
    /\ org = ZeroOrganism
    /\ genId = 0
    /\ err = NoErr
    /\ last = [target |-> NoRead, origin |-> NoRead]

\* Experiment.Write: a new encoder, then Experiment.Encode.
Write ==
    /\ UNCHANGED nonCodecVars
    /\ pc = "init"
    /\ stream' = ExperimentEncode(exp)
    /\ pc' = "encoded"
    /\ UNCHANGED <<exp, cur, pos, dst, trial, gen, org, genId, err, last>>

\* Experiment.Read: a new decoder, then Experiment.Decode.
Read ==
    /\ UNCHANGED nonCodecVars
    /\ pc = "encoded"
    /\ pc' = "decoding"
    /\ cur' = Cursor("exp", 1, 0, 0)
    /\ pos' = 0
    /\ UNCHANGED <<exp, stream, dst, trial, gen, org, genId, err, last>>

\* Experiment.Decode, after trial.Decode returned nil: e.Trials[i] = trial and
\* the next turn of the loop. The result is the decoder's next frame.
AfterTrial(tv) ==
    LET more == cur.t < Len(dst.Trials)
    IN  [dst |-> [dst EXCEPT !.Trials[cur.t] = tv],
         pc |-> IF more THEN "decoding" ELSE "done",
         cur |-> IF more THEN Cursor("trial", 1, cur.t + 1, 0) ELSE cur,
         trial |-> IF more THEN ZeroTrial ELSE tv,
         gen |-> gen]

\* Trial.Decode, after gen.Decode returned nil: t.Generations[i] = gen and the
\* next turn of the loop.
AfterGeneration(gv) ==
    LET tv == [trial EXCEPT !.Generations[cur.g] = gv]
    IN  IF cur.g < Len(trial.Generations)
        THEN [dst |-> dst, pc |-> "decoding",
              cur |-> Cursor("gen", 1, cur.t, cur.g + 1),
              trial |-> tv, gen |-> ZeroGeneration]
        ELSE [AfterTrial(tv) EXCEPT !.gen = gv]

\* Generation.Decode, after decodeOrganism returned (org, nil): g.Champion = org.
AfterOrganism(ov) == AfterGeneration([gen EXCEPT !.Champion = Ref(ov)])

\* Experiment.Decode: one of its three header fields.
ExperimentDecode ==
    /\ UNCHANGED nonCodecVars
    /\ pc = "decoding"
    /\ cur.lvl = "exp"
    /\ \E io \in BOOLEAN :
        LET name == ExpDecodeOrder[cur.f]
            r == GobDecode(GobType(name), io)
        IN  IF ~r.ok
            THEN /\ err' = MkErr(<<>>, r.cause, "exp", name)
                 /\ pc' = ReturnPc("exp")
                 /\ pos' = r.pos
                 /\ UNCHANGED <<exp, stream, cur, dst, trial, gen, org, genId, last>>
            ELSE LET m == stream[pos + 1]
                 IN  /\ pos' = r.pos
                     /\ last' = [target |-> Target("exp", name), origin |-> m.src]
                     /\ IF name = "tNum"
                        THEN /\ dst' = [dst EXCEPT !.Trials = Make(ZeroTrial, m.val)]
                             /\ IF m.val > 0
                                THEN /\ cur' = Cursor("trial", 1, 1, 0)
                                     /\ trial' = ZeroTrial
                                     /\ pc' = pc
                                ELSE /\ pc' = "done"
                                     /\ UNCHANGED <<cur, trial>>
                        ELSE /\ dst' = [dst EXCEPT ![name] = m.val]
                             /\ cur' = [cur EXCEPT !.f = cur.f + 1]
                             /\ UNCHANGED <<pc, trial>>
                     /\ UNCHANGED <<exp, stream, gen, org, genId, err>>

\* Experiment.Decode: trial.Decode returned an error, which is returned as it is.
ExperimentDecodeReturn ==
    /\ UNCHANGED nonCodecVars
    /\ pc = "unwinding"
    /\ cur.lvl = "trial"
    /\ pc' = "failed"
    /\ UNCHANGED <<exp, stream, cur, pos, dst, trial, gen, org, genId, err, last>>

\* Trial.Decode: the generation count, then the loop over the generations.
TrialDecode ==
    /\ UNCHANGED nonCodecVars
    /\ pc = "decoding"
    /\ cur.lvl = "trial"
    /\ \E io \in BOOLEAN :
        LET r == GobDecode("int", io)
        IN  IF ~r.ok
            THEN /\ err' = MkErr(<<"ngen">>, r.cause, "trial", "ngen")
                 /\ pc' = ReturnPc("trial")
                 /\ pos' = r.pos
                 /\ UNCHANGED <<exp, stream, cur, dst, trial, gen, org, genId, last>>
            ELSE LET m == stream[pos + 1]
                     tv == [trial EXCEPT !.Generations = Make(ZeroGeneration, m.val)]
                     nx == IF m.val > 0
                           THEN [dst |-> dst, pc |-> pc, cur |-> Cursor("gen", 1, cur.t, 1),
                                 trial |-> tv, gen |-> ZeroGeneration]
                           ELSE AfterTrial(tv)
                 IN  /\ pos' = r.pos
                     /\ last' = [target |-> Target("trial", "ngen"), origin |-> m.src]
                     /\ dst' = nx.dst
                     /\ pc' = nx.pc
                     /\ cur' = nx.cur
                     /\ trial' = nx.trial
                     /\ gen' = nx.gen
                     /\ UNCHANGED <<exp, stream, org, genId, err>>

\* Trial.Decode: gen.Decode returned an error, which is returned.
TrialDecodeReturn ==
    /\ UNCHANGED nonCodecVars
    /\ pc = "unwinding"
    /\ cur.lvl = "gen"
    /\ cur' = [cur EXCEPT !.lvl = "trial"]
    /\ UNCHANGED <<exp, stream, pc, pos, dst, trial, gen, org, genId, err, last>>

\* Generation.Decode: one of its twelve fields; after the last, decodeOrganism
\* is entered with a zero Organism.
GenerationDecode ==
    /\ UNCHANGED nonCodecVars
    /\ pc = "decoding"
    /\ cur.lvl = "gen"
    /\ \E io \in BOOLEAN :
        LET name == GenDecodeOrder[cur.f]
            r == GobDecode(GobType(name), io)
        IN  IF ~r.ok
            THEN /\ err' = MkErr(<<GenDecodeWrap[cur.f]>>, r.cause, "gen", name)
                 /\ pc' = ReturnPc("gen")
                 /\ pos' = r.pos
                 /\ UNCHANGED <<exp, stream, cur, dst, trial, gen, org, genId, last>>
            ELSE LET m == stream[pos + 1]
                 IN  /\ pos' = r.pos
                     /\ last' = [target |-> Target("gen", name), origin |-> m.src]
                     /\ gen' = [gen EXCEPT ![name] = m.val]
                     /\ IF cur.f < Len(GenDecodeOrder)
                        THEN /\ cur' = [cur EXCEPT !.f = cur.f + 1]
                             /\ UNCHANGED <<org, genId>>
                        ELSE /\ cur' = Cursor("org", 1, cur.t, cur.g)
                             /\ org' = ZeroOrganism
                             /\ genId' = 0
                     /\ UNCHANGED <<exp, stream, pc, dst, trial, err>>

\* Generation.Decode: decodeOrganism returned an error, which is returned as it is.
GenerationDecodeReturn ==
    /\ UNCHANGED nonCodecVars
    /\ pc = "unwinding"
    /\ cur.lvl = "org"
    /\ cur' = [cur EXCEPT !.lvl = "gen"]
    /\ UNCHANGED <<exp, stream, pc, pos, dst, trial, gen, org, genId, err, last>>

\* decodeOrganism: one of its seven values; after the last, genetics.ReadGenome
\* and the return into Generation.Decode.
decodeOrganism ==
    /\ UNCHANGED nonCodecVars
    /\ pc = "decoding"
    /\ cur.lvl = "org"
    /\ \E io \in BOOLEAN :
        LET name == OrgDecodeOrder[cur.f]
            r == GobDecode(OrgType(name), io)
        IN  IF ~r.ok
            THEN /\ err' = MkErr(<<OrgDecodeWrap[cur.f]>>, r.cause, "org", name)
                 /\ pc' = ReturnPc("org")
                 /\ pos' = r.pos
                 /\ UNCHANGED <<exp, stream, cur, dst, trial, gen, org, genId, last>>
            ELSE LET m == stream[pos + 1]
                 IN  /\ pos' = r.pos
                     /\ last' = [target |-> Target("org", name), origin |-> m.src]
                     /\ IF name = "data"
                        THEN IF ReadGenomeOk(m.val)
                             THEN LET ov == [org EXCEPT !.Genotype = Ref(ReadGenome(m.val, genId))]
                                      nx == AfterOrganism(ov)
                                  IN  /\ org' = ov
                                      /\ dst' = nx.dst
                                      /\ pc' = nx.pc
                                      /\ cur' = nx.cur
                                      /\ trial' = nx.trial
                                      /\ gen' = nx.gen
                                      /\ UNCHANGED <<genId, err>>
                             ELSE /\ err' = MkErr(<<>>, "genome", "org", "ReadGenome")
                                  /\ pc' = ReturnPc("org")
                                  /\ UNCHANGED <<cur, dst, trial, gen, org, genId>>
                        ELSE /\ IF name = "genId"
                                THEN genId' = m.val /\ org' = org
                                ELSE org' = [org EXCEPT ![name] = m.val] /\ genId' = genId
                             /\ cur' = [cur EXCEPT !.f = cur.f + 1]
                             /\ UNCHANGED <<pc, dst, trial, gen, err>>
                     /\ UNCHANGED <<exp, stream>>

NextCodec ==
    \/ Write
    \/ Read
    \/ ExperimentDecode
    \/ ExperimentDecodeReturn
    \/ TrialDecode
    \/ TrialDecodeReturn
    \/ GenerationDecode
    \/ GenerationDecodeReturn
    \/ decodeOrganism

IdleCodec ==
    /\ exp = ZeroExperiment
    /\ dst = ZeroExperiment
    /\ stream = <<>>
    /\ pc = "idle"
    /\ cur = Cursor("none", 0, 0, 0)
    /\ pos = 0
    /\ trial = ZeroTrial
    /\ gen = ZeroGeneration
    /\ org = ZeroOrganism
    /\ genId = 0
    /\ err = NoErr
    /\ last = [target |-> NoRead, origin |-> NoRead]

\* ------------------------------------------------------------- one epoch
\* A float64 is modelled by an integer; only the order of the values is kept.
\* MinInt64Float stands for float64(math.MinInt64), the value maxFitness
\* starts from, and NegInf for the floats below it (-Inf, -1e19).
MinInt64Float == -1

NegInf == MinInt64Float - 1

FitnessValues == {NegInf, 0, 1}

MaxSpecies == 2
MaxOrganisms == 2

SpeciesAge(s) == 2 * s + 1

\* The i-th organism of species s, of fitness f.
EpochOrganism(s, i, f) ==
    [ZeroOrganism EXCEPT !.Fitness = f, !.Generation = 1,
                         !.Genotype = Ref(Genome(10 * s + i)),
                         !.Species = Ref([Age |-> SpeciesAge(s)])]

\* The nodes plus the links of the organism's phenotype, a function of its genome.
organismComplexity(o) ==
    LET gn == Deref(o.Genotype) IN gn.Genes[1] + gn.Genes[2]

NonDecreasing(n) ==
    {f \in [1..n -> FitnessValues] : \A i, j \in 1..n : i < j => f[i] <= f[j]}

\* The fitness values of the organisms of a species, which is never empty; the
\* species are given least fit first, so that the sort has something to do.
SpeciesFitness == UNION {NonDecreasing(n) : n \in 1..MaxOrganisms}

MakeSpecies(s, fs) ==
    [Age |-> SpeciesAge(s),
     Organisms |-> [i \in DOMAIN fs |-> EpochOrganism(s, i, fs[i])]]

Populations ==
    UNION {{[Species |-> [s \in 1..n |-> MakeSpecies(s, fss[s])]] :
                fss \in [1..n -> SpeciesFitness]} : n \in 0..MaxSpecies}

\* sort.Sort(sort.Reverse(organisms)): most fit first. sort.Sort is not stable:
\* organisms of equal fitness may come out in any order.
SortedOrganisms(orgs) ==
    {[i \in DOMAIN orgs |-> orgs[p[i]]] :
        p \in {q \in [DOMAIN orgs -> DOMAIN orgs] :
                /\ \A i, j \in DOMAIN orgs : i # j => q[i] # q[j]
                /\ \A i, j \in DOMAIN orgs :
                    i < j => orgs[q[i]].Fitness >= orgs[q[j]].Fitness}}

RECURSIVE SortedSpecies(_, _)
SortedSpecies(species, s) ==
    IF s > Len(species) THEN {<<>>}
    ELSE {<<[species[s] EXCEPT !.Organisms = so]>> \o rest :
            so \in SortedOrganisms(species[s].Organisms),
            rest \in SortedSpecies(species, s + 1)}

\* The Generation the epoch starts from: a new one, one whose winner the
\* evaluator has recorded (Solved), and the same two filled once before.
Winner ==
    [ZeroOrganism EXCEPT !.Fitness = 0, !.IsWinner = TRUE, !.Generation = 1,
                         !.Genotype = Ref(Genome(99)), !.Species = Ref([Age |-> 4])]

Stale(g) ==
    [g EXCEPT !.Fitness = <<1, 1, 1>>, !.Age = <<2, 2, 2>>,
              !.Complexity = <<3, 3, 3>>, !.Diversity = 3,
              !.Champion = IF g.Solved THEN g.Champion
                           ELSE Ref([Winner EXCEPT !.IsWinner = FALSE])]

StartGenerations ==
    LET new == [ZeroGeneration EXCEPT !.Id = 1]
        won == [ZeroGeneration EXCEPT !.Id = 2, !.Solved = TRUE, !.Champion = Ref(Winner)]
    IN  {new, won, Stale([new EXCEPT !.Id = 3]), Stale([won EXCEPT !.Id = 4])}

SelectChampionAlways(g, rep, maxFitness) ==
    IF rep.Fitness > maxFitness
    THEN [g |-> [g EXCEPT !.Champion = Ref(rep)], maxFitness |-> rep.Fitness]
    ELSE [g |-> g, maxFitness |-> maxFitness]

\* `if !g.Solved { if Organisms[0].Fitness > maxFitness { ... } }`
SelectChampion(g, rep, maxFitness) ==
    IF ~g.Solved /\ rep.Fitness > maxFitness
    THEN [g |-> [g EXCEPT !.Champion = Ref(rep)], maxFitness |-> rep.Fitness]
    ELSE [g |-> g, maxFitness |-> maxFitness]

\* The loop over pop.Species, each already sorted.
RECURSIVE FillLoop(_, _, _, _)
FillLoop(g, species, i, maxFitness) ==
    IF i > Len(species) THEN g
    ELSE LET rep == species[i].Organisms[1]
             g1 == [g EXCEPT !.Age[i] = species[i].Age,
                             !.Complexity[i] = organismComplexity(rep),
                             !.Fitness[i] = rep.Fitness]
             r == SelectChampion(g1, rep, maxFitness)
         IN  FillLoop(r.g, species, i + 1, r.maxFitness)

NewFloatsAppended(old, n) == old \o Make(0, n)

\* make(Floats, g.Diversity)
NewFloats(old, n) == Make(0, n)

FillStatistics(g, species) ==
    LET n == Len(species)
        g0 == [g EXCEPT !.Diversity = n,
                        !.Age = NewFloats(g.Age, n),
                        !.Complexity = NewFloats(g.Complexity, n),
                        !.Fitness = NewFloats(g.Fitness, n)]
    IN  FillLoop(g0, species, 1, MinInt64Float)

\* One value of the three Average returns: a fraction, or NaN (0/0).
Div(a, b) ==
    IF b = 0 THEN [nan |-> TRUE, num |-> 0, den |-> 0]
    ELSE [nan |-> FALSE, num |-> a, den |-> b]

Zero == [nan |-> FALSE, num |-> 0, den |-> 1]

RECURSIVE Sum(_)
Sum(x) == IF Len(x) = 0 THEN 0 ELSE x[1] + Sum(Tail(x))

\* Floats.Mean
Mean(x) == IF Len(x) = 0 THEN Zero ELSE Div(Sum(x), Len(x))

AverageUnguarded(g) ==
    <<Div(Sum(g.Fitness), Len(g.Fitness)), Div(Sum(g.Age), Len(g.Age)),
      Div(Sum(g.Complexity), Len(g.Complexity))>>

Average(g) == <<Mean(g.Fitness), Mean(g.Age), Mean(g.Complexity)>>

InitEpochVars ==
    /\ epoch \in StartGenerations
    /\ pop \in Populations
    /\ ephase = "new"
    /\ eavg = <<>>

IdleEpoch ==
    /\ epoch = ZeroGeneration
    /\ pop = [Species |-> <<>>]
    /\ ephase = "idle"
    /\ eavg = <<>>

FillPopulationStatistics ==
    /\ UNCHANGED nonEpochVars
    /\ ephase = "new"
    /\ eavg = <<>>
    /\ \E species \in SortedSpecies(pop.Species, 1) :
        /\ pop' = [pop EXCEPT !.Species = species]
        /\ epoch' = FillStatistics(epoch, species)
    /\ ephase' = "filled"
    /\ UNCHANGED eavg

\* Generation.Average, on a Generation that was filled or never was.
AverageCall ==
    /\ UNCHANGED nonEpochVars
    /\ ephase \in {"new", "filled"}
    /\ eavg = <<>>
    /\ eavg' = <<Average(epoch)>>
    /\ UNCHANGED <<epoch, pop, ephase>>

NextEpoch ==
    \/ FillPopulationStatistics
    \/ AverageCall

\* ------------------------------------------------------------- analytics
AnaTrial(flags) ==
    [ZeroTrial EXCEPT !.Generations =
        [i \in DOMAIN flags |-> [ZeroGeneration EXCEPT !.Id = i, !.Solved = flags[i]]]]

AnaTrials == {AnaTrial(flags) : flags \in UNION {[1..n -> BOOLEAN] : n \in 0..MaxGens}}

AnaExperiments ==
    {[ZeroExperiment EXCEPT !.Id = 1, !.Name = "XOR", !.Trials = ts] :
        ts \in UNION {[1..n -> AnaTrials] : n \in 0..MaxTrials}}

\* Trial.Solved: some epoch of the trial is solved.
TrialSolved(t) == \E g \in DOMAIN t.Generations : t.Generations[g].Solved

RECURSIVE TrialsSolvedLoop(_, _, _)
TrialsSolvedLoop(trials, i, count) ==
    IF i > Len(trials) THEN count
    ELSE TrialsSolvedLoop(trials, i + 1,
                          IF TrialSolved(trials[i]) THEN count + 1 ELSE count)

TrialsSolvedCountsAll(e) == Len(e.Trials)

TrialsSolved(e) == TrialsSolvedLoop(e.Trials, 1, 0)

SuccessRateUnguarded(e) == Div(TrialsSolved(e), Len(e.Trials))

SuccessRate(e) ==
    LET solved == TrialsSolved(e)
    IN  IF Len(e.Trials) > 0 THEN Div(solved, Len(e.Trials)) ELSE Zero

InitAnaVars ==
    /\ ana \in AnaExperiments
    /\ rate = <<>>

IdleAna ==
    /\ ana = ZeroExperiment
    /\ rate = <<>>

SuccessRateCall ==
    /\ UNCHANGED nonAnaVars
    /\ rate = <<>>
    /\ rate' = <<SuccessRate(ana)>>
    /\ UNCHANGED ana

NextAnalytics ==
    \/ SuccessRateCall

\* ------------------------------------------------------ efficiency score
\* float64 values are fractions num/den with den > 0, or NaN.
NaN == [nan |-> TRUE, num |-> 0, den |-> 0]

Rat(n) == [nan |-> FALSE, num |-> n, den |-> 1]

FAdd(a, b) ==
    IF a.nan \/ b.nan THEN NaN
    ELSE [nan |-> FALSE, num |-> a.num * b.den + b.num * a.den, den |-> a.den * b.den]

FMul(a, b) ==
    IF a.nan \/ b.nan THEN NaN
    ELSE [nan |-> FALSE, num |-> a.num * b.num, den |-> a.den * b.den]

\* a / b; 0 / 0 is NaN. No division of the model has a non-zero dividend over
\* a zero divisor (an infinity).
FDiv(a, b) ==
    IF a.nan \/ b.nan \/ b.num = 0 THEN NaN
    ELSE IF b.num > 0 THEN [nan |-> FALSE, num |-> a.num * b.den, den |-> a.den * b.num]
    ELSE [nan |-> FALSE, num |-> -(a.num * b.den), den |-> -(a.den * b.num)]

\* score > 0: false of a NaN.
Positive(a) == ~a.nan /\ a.num > 0

\* time.Duration division: an integer division that truncates toward zero.
Quot(a, n) == IF a >= 0 THEN a \div n ELSE -((-a) \div n)

EmptyDuration == 0

ScoreDurations == {-1, 0, 2}

MaxFitnessScores == {0, 2}

\* The champion of generation g of trial t: fitness and complexity differ
\* from one generation to the next.
ScoreChampion(t, g, solved) ==
    [ZeroOrganism EXCEPT !.Fitness = t + g, !.IsWinner = solved, !.Generation = g,
                         !.Genotype = Ref(Genome(2 * t + g))]

\* A Trial of n epochs of duration d each; a solved trial ends with its solved
\* epoch, whose Champion is the winner.
ScoreTrial(t, n, solved, d) ==
    [Generations |->
        [g \in 1..n |->
            [ZeroGeneration EXCEPT !.Id = g, !.TrialId = t, !.Duration = d,
                                   !.Solved = solved /\ g = n,
                                   !.Champion = Ref(ScoreChampion(t, g, solved /\ g = n))]],
     WinnerGeneration |-> Nil]

\* The Trials drawn: the number of epochs, solved or not, the epoch duration.
ScoreShapes ==
    {[n |-> 0, solved |-> FALSE, d |-> 0]} \cup
    {[n |-> n, solved |-> solved, d |-> d] :
        n \in 1..MaxGens, solved \in BOOLEAN, d \in ScoreDurations}

ScoreExperiment(shapes, m) ==
    [ZeroExperiment EXCEPT !.Id = 1, !.Name = "XOR", !.MaxFitnessScore = m,
        !.Trials = [t \in DOMAIN shapes |->
                      ScoreTrial(t, shapes[t].n, shapes[t].solved, shapes[t].d)]]

\* Trial.AvgEpochDuration: the mean duration of the trial's epochs.
TrialAvgEpochDuration(t) ==
    LET n == Len(t.Generations)
    IN  IF n > 0 THEN Quot(Sum([g \in 1..n |-> t.Generations[g].Duration]), n)
        ELSE EmptyDuration

\* Experiment.AvgEpochDuration
AvgEpochDuration(e) ==
    LET total == Sum([t \in DOMAIN e.Trials |-> TrialAvgEpochDuration(e.Trials[t])])
    IN  IF Len(e.Trials) > 0 THEN Quot(total, Len(e.Trials)) ELSE EmptyDuration

\* Experiment.AvgGenerationsPerTrial
AvgGenerationsPerTrial(e) ==
    LET total == Sum([t \in DOMAIN e.Trials |-> Len(e.Trials[t].Generations)])
    IN  IF Len(e.Trials) > 0 THEN FDiv(Rat(total), Rat(Len(e.Trials))) ELSE Rat(0)

\* Duration.Seconds: the durations of the model are whole seconds.
Seconds(d) == Rat(d)

\* math.MaxInt on the scale of the model's complexities.
MaxInt == 1000000

\* Generation.ChampionComplexity
ChampionComplexity(g) ==
    IF g.Champion = Nil THEN MaxInt ELSE organismComplexity(Deref(g.Champion))

\* Experiment.penaltyScore
penaltyScore(e, meanComplexity) ==
    FMul(FMul(FMul(Seconds(AvgEpochDuration(e)), Rat(1000)), AvgGenerationsPerTrial(e)),
         meanComplexity)

\* Trial.WinnerStatistics on the Trial t points at: the cached winner
\* generation, or else the first solved one, which it caches on that Trial.
WinnerStatistics(t) ==
    IF t.WinnerGeneration # Nil \/ ~TrialSolved(t) THEN t
    ELSE LET first == CHOOSE g \in DOMAIN t.Generations :
                        /\ t.Generations[g].Solved
                        /\ \A h \in 1..(g - 1) : ~t.Generations[h].Solved
         IN  [t EXCEPT !.WinnerGeneration = Ref(first)]

\* The loop of EfficiencyScore over `for _, t := range e.Trials`: t is a copy
\* of the Trial, and acc.copies keeps the copies as the loop body left them.
RECURSIVE ScoreLoop(_, _, _)
ScoreLoop(trials, i, acc) ==
    IF i > Len(trials) THEN acc
    ELSE LET t0 == trials[i]
         IN  IF TrialSolved(t0)
             THEN LET t  == IF t0.WinnerGeneration = Nil THEN WinnerStatistics(t0) ELSE t0
                      wg == t.Generations[Deref(t.WinnerGeneration)]
                  IN  ScoreLoop(trials, i + 1,
                        [meanComplexity |-> FAdd(acc.meanComplexity, Rat(ChampionComplexity(wg))),
                         meanFitness    |-> FAdd(acc.meanFitness, Rat(Deref(wg.Champion).Fitness)),
                         count          |-> acc.count + 1,
                         copies         |-> Append(acc.copies, t)])
             ELSE ScoreLoop(trials, i + 1, [acc EXCEPT !.copies = Append(@, t0)])

NoMeans == [meanComplexity |-> Rat(0), meanFitness |-> Rat(0), count |-> 0, copies |-> <<>>]

ScoreMeansOverAll(e) ==
    LET acc == ScoreLoop(e.Trials, 1, NoMeans)
    IN  [acc EXCEPT !.meanComplexity = FDiv(@, Rat(Len(e.Trials))),
                    !.meanFitness = FDiv(@, Rat(Len(e.Trials)))]

\* The loop and the two divisions by count.
ScoreMeans(e) ==
    LET acc == ScoreLoop(e.Trials, 1, NoMeans)
    IN  [acc EXCEPT !.meanComplexity = FDiv(@, Rat(acc.count)),
                    !.meanFitness = FDiv(@, Rat(acc.count))]

EfficiencyMeansOfOne(e) == IF Len(e.Trials) > 0 THEN ScoreMeans(e) ELSE NoMeans

EfficiencyMeans(e) == IF Len(e.Trials) > 1 THEN ScoreMeans(e) ELSE NoMeans

\* Experiment.EfficiencyScore. The value returned is `penalty` when kind is
\* "penalty" and successRate * fitnessScore / ln(penalty) when kind is "score".
EfficiencyScore(e) ==
    LET m == EfficiencyMeans(e)
        fitnessScore == IF e.MaxFitnessScore > 0
                        THEN FMul(FDiv(m.meanFitness, Rat(e.MaxFitnessScore)), Rat(100))
                        ELSE m.meanFitness
        score == penaltyScore(e, m.meanComplexity)
    IN  [kind           |-> IF Positive(score) THEN "score" ELSE "penalty",
         penalty        |-> score,
         successRate    |-> IF Positive(score) THEN SuccessRate(e) ELSE Zero,
         fitnessScore   |-> fitnessScore,
         meanComplexity |-> m.meanComplexity,
         meanFitness    |-> m.meanFitness,
         copies         |-> m.copies]

MaxCalls == 2

InitScoreVars ==
    /\ \E n \in 0..MaxTrials : \E shapes \in [1..n -> ScoreShapes] :
       \E m \in MaxFitnessScores : sexp = ScoreExperiment(shapes, m)
    /\ sres = <<>>
    /\ scopy = <<>>

IdleScore ==
    /\ sexp = ZeroExperiment
    /\ sres = <<>>
    /\ scopy = <<>>

\* e.EfficiencyScore(): the loop writes to its copies of the Trials only.
EfficiencyScoreCall ==
    /\ UNCHANGED nonScoreVars
    /\ Len(sres) < MaxCalls
    /\ LET r == EfficiencyScore(sexp)
       IN  /\ sres' = Append(sres, [r EXCEPT !.copies = <<>>])
           /\ scopy' = r.copies
    /\ UNCHANGED sexp

\* e.Trials[i].WinnerStatistics(), as PrintStatistics calls it.
WinnerStatisticsCall ==
    /\ UNCHANGED nonScoreVars
    /\ \E i \in DOMAIN sexp.Trials :
          sexp' = [sexp EXCEPT !.Trials[i] = WinnerStatistics(@)]
    /\ UNCHANGED <<sres, scopy>>

NextScore ==
    \/ EfficiencyScoreCall
    \/ WinnerStatisticsCall

\* --------------------------------------------------- average epoch duration
EpochDurations == {0, 1, 6}

DurationTrial(ds) ==
    [Generations |-> [g \in DOMAIN ds |-> [ZeroGeneration EXCEPT !.Id = g, !.Duration = ds[g]]],
     WinnerGeneration |-> Nil]

DurationTrials ==
    {DurationTrial(ds) : ds \in UNION {[1..n -> EpochDurations] : n \in 0..MaxGens}}

DurationExperiments ==
    {[ZeroExperiment EXCEPT !.Id = 1, !.Name = "XOR", !.Trials = ts] :
        ts \in UNION {[1..n -> DurationTrials] : n \in 0..MaxTrials}}

InitDurationVars ==
    /\ dexp \in DurationExperiments
    /\ dres = <<>>

IdleDuration ==
    /\ dexp = ZeroExperiment
    /\ dres = <<>>

\* e.AvgEpochDuration()
AvgEpochDurationCall ==
    /\ UNCHANGED nonDurationVars
    /\ dres = <<>>
    /\ dres' = <<AvgEpochDuration(dexp)>>
    /\ UNCHANGED dexp

NextDuration ==
    \/ AvgEpochDurationCall

\* ------------------------------------------------------------ best organism
\* The champions of the epochs: a non-winner of fitness 3 and winners of
\* fitness 1 and 2.
BestKinds ==
    {[Fitness |-> 3, IsWinner |-> FALSE], [Fitness |-> 1, IsWinner |-> TRUE],
     [Fitness |-> 2, IsWinner |-> TRUE]}

NoFlag == 0 - 7

BestChampion(t, g, k) ==
    [ZeroOrganism EXCEPT !.Fitness = k.Fitness, !.IsWinner = k.IsWinner, !.Generation = g,
                         !.Genotype = Ref(Genome(10 * t + g)), !.Flag = NoFlag]

BestTrial(t, ks) ==
    [Generations |->
        [g \in DOMAIN ks |->
            [ZeroGeneration EXCEPT !.Id = g, !.TrialId = t, !.Solved = ks[g].IsWinner,
                                   !.Champion = Ref(BestChampion(t, g, ks[g]))]],
     WinnerGeneration |-> Nil]

\* The champions of the epochs of one Trial.
BestShapes == UNION {[1..m -> BestKinds] : m \in 0..MaxGens}

BestExperiment(kss) ==
    [ZeroExperiment EXCEPT !.Id = 1, !.Name = "XOR",
                           !.Trials = [t \in DOMAIN kss |-> BestTrial(t, kss[t])]]

\* The organisms Trial.BestOrganism chooses among, by the epoch they are the
\* Champion of.
TrialCandidates(t, onlySolvers) ==
    {g \in DOMAIN t.Generations :
        /\ t.Generations[g].Champion # Nil
        /\ onlySolvers => Deref(t.Generations[g].Champion).IsWinner}

\* Trial.BestOrganism: the epochs whose Champion it may return, a candidate of
\* the highest fitness; {0} when it finds none.
TrialBestOrganism(t, onlySolvers) ==
    LET c == TrialCandidates(t, onlySolvers)
        f(g) == Deref(t.Generations[g].Champion).Fitness
    IN  IF c = {} THEN {0} ELSE {g \in c : \A h \in c : f(g) >= f(h)}

FoundFlagOfPosition(i, orgs) == Len(orgs)

\* org.Flag = i, for the Trial at index i (Go counts the Trials from 0).
FoundFlag(i, orgs) == i - 1

\* The loop of Experiment.BestOrganism; pick[i] is the epoch of the organism
\* that Trial.BestOrganism returned for Trial i, 0 when it found none.
RECURSIVE BestLoop(_, _, _, _)
BestLoop(trials, pick, i, orgs) ==
    IF i > Len(trials) THEN orgs
    ELSE IF pick[i] # 0
         THEN LET best == Deref(trials[i].Generations[pick[i]].Champion)
              IN  BestLoop(trials, pick, i + 1,
                           Append(orgs, [best EXCEPT !.Flag = FoundFlag(i, orgs)]))
         ELSE BestLoop(trials, pick, i + 1, orgs)

NotFound == [organism |-> Nil, trial |-> 0 - 1, found |-> FALSE]

\* The organisms are pointers: the Flag written in the loop is written to the
\* Champion the Trial holds.
Flagged(e, pick, orgs) ==
    [e EXCEPT !.Trials =
        [i \in DOMAIN e.Trials |->
            IF pick[i] = 0 THEN e.Trials[i]
            ELSE [e.Trials[i] EXCEPT !.Generations[pick[i]].Champion =
                    Ref(CHOOSE o \in {orgs[k] : k \in DOMAIN orgs} :
                          Deref(o.Genotype) =
                            Deref(Deref(e.Trials[i].Generations[pick[i]].Champion).Genotype))]]]

InitBestVars ==
    /\ \E n \in 0..MaxTrials : \E kss \in [1..n -> BestShapes] : bexp = BestExperiment(kss)
    /\ barg = <<>>
    /\ bres = <<>>

IdleBest ==
    /\ bexp = ZeroExperiment
    /\ barg = <<>>
    /\ bres = <<>>

\* e.BestOrganism(onlySolvers)
BestOrganismCall ==
    /\ UNCHANGED nonBestVars
    /\ bres = <<>>
    /\ \E onlySolvers \in BOOLEAN :
       \E pick \in [DOMAIN bexp.Trials -> 0..MaxGens] :
          /\ \A i \in DOMAIN bexp.Trials :
                pick[i] \in TrialBestOrganism(bexp.Trials[i], onlySolvers)
          /\ barg' = <<onlySolvers>>
          /\ LET orgs == BestLoop(bexp.Trials, pick, 1, <<>>)
             IN  /\ bexp' = Flagged(bexp, pick, orgs)
                 /\ IF Len(orgs) > 0
                    THEN \E sorted \in SortedOrganisms(orgs) :
                            bres' = <<[organism |-> Ref(sorted[1]), trial |-> sorted[1].Flag,
                                       found |-> TRUE]>>
                    ELSE bres' = <<NotFound>>

NextBest ==
    \/ BestOrganismCall

\* ------------------------------------------------------------ numeric export
\* An array of the archive: its name, its shape and, for trials_number, its
\* value. The name of a per-trial array is fmt.Sprintf("trial_%d_<series>", i),
\* kept as the pair of i and <series>; trial is -1 in the other names.
NpzArray(series, i, rows, cols, data) ==
    [name |-> [trial |-> i, series |-> series], rows |-> rows, cols |-> cols, data |-> data]

NpzExperiments ==
    {[ZeroExperiment EXCEPT !.Id = 1, !.Name = "XOR",
                            !.Trials = [t \in DOMAIN shape |->
                                          AnaTrial([g \in 1..shape[t] |-> FALSE])]] :
        shape \in Shapes}

\* The seven per-epoch series of a Trial (Trial.Average, ChampionsFitness,
\* ChampionSpeciesAges, ChampionsComplexities, Diversity): one value per epoch.
TrialSeriesLen(t) == Len(t.Generations)

\* mat.NewDense(len(e.Trials), 2, nil), one row (mean, variance) per Trial.
\* mat.NewDense panics when asked for no row.
fitnessAgeComplexityMat(e) ==
    IF Len(e.Trials) = 0 THEN <<"panic">>
    ELSE <<"ok", [rows |-> Len(e.Trials), cols |-> 2]>>

GeneralArrays(e, dense) ==
    <<NpzArray("trials_number", 0 - 1, 1, 1, <<Len(e.Trials)>>),
      NpzArray("trials_fitness", 0 - 1, dense.rows, dense.cols, <<>>),
      NpzArray("trials_ages", 0 - 1, dense.rows, dense.cols, <<>>),
      NpzArray("trials_complexity", 0 - 1, dense.rows, dense.cols, <<>>)>>

TrialArraysCountedFromOne(t, i) ==
    LET n == TrialSeriesLen(t)
    IN  <<NpzArray("epoch_mean_fitnesses", i + 1, n, 1, <<>>),
          NpzArray("epoch_mean_ages", i + 1, n, 1, <<>>),
          NpzArray("epoch_mean_complexities", i + 1, n, 1, <<>>),
          NpzArray("epoch_best_fitnesses", i + 1, n, 1, <<>>),
          NpzArray("epoch_best_ages", i + 1, n, 1, <<>>),
          NpzArray("epoch_best_complexities", i + 1, n, 1, <<>>),
          NpzArray("epoch_diversity", i + 1, n, 1, <<>>)>>

\* The seven writes of one turn of the loop, for the Trial at index i.
TrialArrays(t, i) ==
    LET n == TrialSeriesLen(t)
    IN  <<NpzArray("epoch_mean_fitnesses", i, n, 1, <<>>),
          NpzArray("epoch_mean_ages", i, n, 1, <<>>),
          NpzArray("epoch_mean_complexities", i, n, 1, <<>>),
          NpzArray("epoch_best_fitnesses", i, n, 1, <<>>),
          NpzArray("epoch_best_ages", i, n, 1, <<>>),
          NpzArray("epoch_best_complexities", i, n, 1, <<>>),
          NpzArray("epoch_diversity", i, n, 1, <<>>)>>

RECURSIVE PerTrialArrays(_, _)
PerTrialArrays(trials, i) ==
    IF i > Len(trials) THEN <<>>
    ELSE TrialArrays(trials[i], i - 1) \o PerTrialArrays(trials, i + 1)

\* The arrays WriteNPZ hands to out.Write, in the order of the calls.
NpzWrites(e, dense) == GeneralArrays(e, dense) \o PerTrialArrays(e.Trials, 1)

NilError == [kind |-> "nil", at |-> 0]

WriteFailureClosing(k) == [pc |-> "returned", closes |-> 1, ret |-> <<[kind |-> "write", at |-> k]>>]

\* `if err := out.Write(...); err != nil { return err }` at the k-th write.
WriteFailure(k) == [pc |-> "returned", closes |-> 0, ret |-> <<[kind |-> "write", at |-> k]>>]

InitNpzVars ==
    /\ nexp \in NpzExperiments
    /\ npc = "idle"
    /\ nmat = <<>>
    /\ nout = <<>>
    /\ nk = 0
    /\ ncloses = 0
    /\ nret = <<>>

IdleNpz ==
    /\ nexp = ZeroExperiment
    /\ npc = "none"
    /\ nmat = <<>>
    /\ nout = <<>>
    /\ nk = 0
    /\ ncloses = 0
    /\ nret = <<>>

\* e.WriteNPZ(w) up to npz.NewWriter(w)
WriteNPZ ==
    /\ UNCHANGED nonNpzVars
    /\ npc = "idle"
    /\ LET m == fitnessAgeComplexityMat(nexp)
       IN  IF m[1] = "panic"
           THEN npc' = "panicked" /\ UNCHANGED nmat
           ELSE npc' = "writing" /\ nmat' = <<m[2]>>
    /\ UNCHANGED <<nexp, nout, nk, ncloses, nret>>

\* The next out.Write of WriteNPZ: it stores the array, or it fails.
NpzWrite ==
    /\ UNCHANGED nonNpzVars
    /\ npc = "writing"
    /\ nk < Len(NpzWrites(nexp, nmat[1]))
    /\ nk' = nk + 1
    /\ \E ok \in BOOLEAN :
          IF ok
          THEN /\ nout' = Append(nout, NpzWrites(nexp, nmat[1])[nk + 1])
               /\ UNCHANGED <<npc, ncloses, nret>>
          ELSE LET f == WriteFailure(nk + 1)
               IN  /\ npc' = f.pc
                   /\ ncloses' = ncloses + f.closes
                   /\ nret' = f.ret
                   /\ UNCHANGED nout
    /\ UNCHANGED <<nexp, nmat>>

\* return out.Close()
NpzClose ==
    /\ UNCHANGED nonNpzVars
    /\ npc = "writing"
    /\ nk = Len(NpzWrites(nexp, nmat[1]))
    /\ ncloses' = ncloses + 1
    /\ \E ok \in BOOLEAN :
          nret' = IF ok THEN <<NilError>> ELSE <<[kind |-> "close", at |-> 0]>>
    /\ npc' = "returned"
    /\ UNCHANGED <<nexp, nmat, nout, nk>>

NextNpz ==
    \/ WriteNPZ
    \/ NpzWrite
    \/ NpzClose

\* ------------------------------------------------------------------ vectors
MaxLen == 2

\* float64 values that add and multiply exactly.
VectorValues == {0 - 1, 0, 2}

\* vector.NewVector
NewVector(values) == [Values |-> values]

\* Vector{}
EmptyVector == [Values |-> <<>>]

Vectors == {NewVector(x) : x \in UNION {[1..n -> VectorValues] : n \in 0..MaxLen}}

SameLengthOrShorter(v, other) == Len(v.Values) <= Len(other.Values)

\* The negation of `len(v.Values) != len(other.Values)`.
SameLength(v, other) == Len(v.Values) = Len(other.Values)

LengthError == "vectors must have the same length"

RECURSIVE AddLoop(_, _, _, _)
AddLoop(v, other, i, result) ==
    IF i > Len(v.Values) THEN result
    ELSE AddLoop(v, other, i + 1, [result EXCEPT ![i] = v.Values[i] + other.Values[i]])

\* Vector.Add: the value and the error returned, and the two operands as the
\* call leaves them (result is a slice of its own).
Add(v, other) ==
    IF ~SameLength(v, other)
    THEN [value |-> EmptyVector, err |-> LengthError, v |-> v, other |-> other]
    ELSE LET result == Make(0, Len(v.Values))
         IN  [value |-> NewVector(AddLoop(v, other, 1, result)), err |-> "nil",
              v |-> v, other |-> other]

RECURSIVE DotLoop(_, _, _, _)
DotLoop(v, other, i, sum) ==
    IF i > Len(v.Values) THEN sum
    ELSE DotLoop(v, other, i + 1, sum + v.Values[i] * other.Values[i])

\* Vector.Dot
Dot(v, other) ==
    IF ~SameLength(v, other)
    THEN [value |-> 0, err |-> LengthError, v |-> v, other |-> other]
    ELSE [value |-> DotLoop(v, other, 1, 0), err |-> "nil", v |-> v, other |-> other]

InitVectorVars ==
    /\ vv \in Vectors
    /\ vother \in Vectors
    /\ vcall = <<>>
    /\ vres = <<>>

IdleVector ==
    /\ vv = EmptyVector
    /\ vother = EmptyVector
    /\ vcall = <<>>
    /\ vres = <<>>

\* v.Add(other)
AddCall ==
    /\ UNCHANGED nonVectorVars
    /\ vres = <<>>
    /\ LET r == Add(vv, vother)
       IN  /\ vcall' = <<[op |-> "Add", v |-> vv, other |-> vother]>>
           /\ vres' = <<[value |-> r.value, err |-> r.err]>>
           /\ vv' = r.v
           /\ vother' = r.other

\* v.Dot(other)
DotCall ==
    /\ UNCHANGED nonVectorVars
    /\ vres = <<>>
    /\ LET r == Dot(vv, vother)
       IN  /\ vcall' = <<[op |-> "Dot", v |-> vv, other |-> vother]>>
           /\ vres' = <<[value |-> r.value, err |-> r.err]>>
           /\ vv' = r.v
           /\ vother' = r.other

NextVector ==
    \/ AddCall
    \/ DotCall

\* ------------------------------------------------------------------ the runner
\* exp.Execute: it runs the trials one after the other and returns nil after
\* the last, or an error (a failed evaluation, a cancelled context) before.
ExecuteResults(done, num, cancelled) ==
    {"error"} \cup (IF done = num /\ ~cancelled THEN {"nil"} ELSE {})

\* errChan is unbuffered: a receiver that finds no sender waits in the
\* channel's queue, rq, and a sender hands its value to the first receiver of
\* the queue, or waits when the queue is empty.
Without(q, r) == SelectSeq(q, LAMBDA x : x # r)

\* What main does with the value it received.
MainAfter(value) == IF value = "nil" THEN "statistics" ELSE "fatal"

InitRunnerVars ==
    /\ rnum \in 1..MaxTrials
    /\ rmain = "go executor"
    /\ rexec = "unborn"
    /\ rhandler = "unborn"
    /\ rq = <<>>
    /\ rrun = 0
    /\ rret = "none"
    /\ rerr = "nil"
    /\ rsig = "none"
    /\ rctx = "live"

IdleRunner ==
    /\ rnum = 0
    /\ rmain = "none"
    /\ rexec = "none"
    /\ rhandler = "none"
    /\ rq = <<>>
    /\ rrun = 0
    /\ rret = "none"
    /\ rerr = "nil"
    /\ rsig = "none"
    /\ rctx = "live"

\* main: the two go statements.
MainStep ==
    /\ UNCHANGED nonRunnerVars
    /\ \/ /\ rmain = "go executor"
          /\ rmain' = "go handler"
          /\ rexec' = "running"
          /\ UNCHANGED rhandler
       \/ /\ rmain = "go handler"
          /\ rmain' = "receive"
          /\ rhandler' = "started"
          /\ UNCHANGED rexec
    /\ UNCHANGED <<rnum, rq, rrun, rret, rerr, rsig, rctx>>

\* main: `err = <-errChan`. It takes the value of a waiting sender and goes on
\* to PrintStatistics or log.Fatalf, or it waits.
MainReceive ==
    /\ UNCHANGED nonRunnerVars
    /\ rmain = "receive"
    /\ IF rexec = "parked"
       THEN /\ rexec' = "returned"
            /\ rerr' = rret
            /\ rmain' = MainAfter(rret)
            /\ UNCHANGED rq
       ELSE /\ rmain' = "waiting"
            /\ rq' = Append(rq, "main")
            /\ UNCHANGED <<rexec, rerr>>
    /\ UNCHANGED <<rnum, rhandler, rrun, rret, rsig, rctx>>

\* The executor goroutine inside exp.Execute: one more trial is run.
ExecuteTrial ==
    /\ UNCHANGED nonRunnerVars
    /\ rexec = "running"
    /\ rrun < rnum
    /\ rctx = "live"
    /\ rrun' = rrun + 1
    /\ UNCHANGED <<rnum, rmain, rexec, rhandler, rq, rret, rerr, rsig, rctx>>

\* exp.Execute returns; the goroutine is before its send on errChan.
ExecuteReturns ==
    /\ UNCHANGED nonRunnerVars
    /\ rexec = "running"
    /\ rret' \in ExecuteResults(rrun, rnum, rctx = "cancelled")
    /\ rexec' = "send"
    /\ UNCHANGED <<rnum, rmain, rhandler, rq, rrun, rerr, rsig, rctx>>

\* `errChan <- err` / `errChan <- nil`: the value goes to the receiver that
\* waits longest, main or the handler's select; with none the sender waits.
Send ==
    /\ UNCHANGED nonRunnerVars
    /\ rexec = "send"
    /\ IF rq = <<>>
       THEN /\ rexec' = "parked"
            /\ UNCHANGED <<rmain, rhandler, rq, rerr>>
       ELSE /\ rexec' = "returned"
            /\ rerr' = rret
            /\ IF Head(rq) = "main"
               THEN /\ rmain' = MainAfter(rret)
                    /\ rq' = Tail(rq)
                    /\ UNCHANGED rhandler
               ELSE /\ rhandler' = "returned"
                    /\ rq' = Tail(rq)
                    /\ UNCHANGED rmain
    /\ UNCHANGED <<rnum, rrun, rret, rsig, rctx>>

\* The handler goroutine: signal.Notify, then its select. No signal is there
\* yet; `case err = <-errChan` takes the value of a waiting sender and the
\* goroutine returns, or the select waits on both channels.
HandlerSelect ==
    /\ UNCHANGED nonRunnerVars
    /\ rhandler = "started"
    /\ IF rexec = "parked"
       THEN /\ rexec' = "returned"
            /\ rerr' = rret
            /\ rhandler' = "returned"
            /\ UNCHANGED rq
       ELSE /\ rhandler' = "select"
            /\ rq' = Append(rq, "handler")
            /\ UNCHANGED <<rexec, rerr>>
    /\ UNCHANGED <<rnum, rmain, rrun, rret, rsig, rctx>>

\* A termination signal arrives after signal.Notify: a waiting select takes
\* `case <-signals`; after the handler returned the signal stays in `signals`.
SignalArrives ==
    /\ UNCHANGED nonRunnerVars
    /\ rsig = "none"
    /\ rhandler \in {"select", "returned"}
    /\ rmain \in {"receive", "waiting"}
    /\ IF rhandler = "select"
       THEN /\ rsig' = "taken"
            /\ rhandler' = "signalled"
            /\ rq' = Without(rq, "handler")
       ELSE /\ rsig' = "pending"
            /\ UNCHANGED <<rhandler, rq>>
    /\ UNCHANGED <<rnum, rmain, rexec, rrun, rret, rerr, rctx>>

\* cancel()
HandlerCancels ==
    /\ UNCHANGED nonRunnerVars
    /\ rhandler = "signalled"
    /\ rctx' = "cancelled"
    /\ rhandler' = "returned"
    /\ UNCHANGED <<rnum, rmain, rexec, rq, rrun, rret, rerr, rsig>>

NextRunner ==
    \/ MainStep
    \/ MainReceive
    \/ ExecuteTrial
    \/ ExecuteReturns
    \/ Send
    \/ HandlerSelect
    \/ SignalArrives
    \/ HandlerCancels

\* ------------------------------------------------------------- the snake game
\* The greatest width and height of a board.
MaxSide == 3

DoNothing == 0
RotateLeft == 1
RotateRight == 2
Actions == {DoNothing, RotateLeft, RotateRight}

Coordinates(row, col) == [Row |-> row, Col |-> col]

NewSnake(startRow, startCol) ==
    [Body |-> <<Coordinates(startRow, startCol)>>, Direction |-> Coordinates(0, 1)]

SnakeHead(s) == s.Body[1]

MoveDroppingTail(s, grow) ==
    [s EXCEPT !.Body = <<Coordinates(SnakeHead(s).Row + s.Direction.Row,
                                     SnakeHead(s).Col + s.Direction.Col)>>
                       \o SubSeq(s.Body, 1, Len(s.Body) - 1)]

\* Snake.Move: the new head is put in front; unless the snake grows its last
\* cell is dropped.
Move(s, grow) ==
    LET newHead == Coordinates(SnakeHead(s).Row + s.Direction.Row,
                               SnakeHead(s).Col + s.Direction.Col)
        longer == <<newHead>> \o s.Body
    IN  [s EXCEPT !.Body = IF grow THEN longer ELSE SubSeq(longer, 1, Len(longer) - 1)]

ChangeDirection(s, action) ==
    IF action = RotateLeft
    THEN [s EXCEPT !.Direction = Coordinates(0 - s.Direction.Col, s.Direction.Row)]
    ELSE IF action = RotateRight
    THEN [s EXCEPT !.Direction = Coordinates(s.Direction.Col, 0 - s.Direction.Row)]
    ELSE s

Contains(s, coord) == \E i \in DOMAIN s.Body : s.Body[i] = coord

\* The cells rand.Intn(height), rand.Intn(width) can give.
Board(width, height) ==
    {Coordinates(r, c) : r \in 0..(height - 1), c \in 0..(width - 1)}

\* The cells on which GenerateFood returns.
FreeCells(g) == {c \in Board(g.Width, g.Height) : ~Contains(g.Snake, c)}

\* Game.Update up to its call of GenerateFood. newHead: the new head cell when
\* the update computed one; grow: the food is eaten, GenerateFood comes next.
UpdateGame(g, action) ==
    IF g.GameState # "Running"
    THEN [game |-> g, newHead |-> Nil, grow |-> FALSE]
    ELSE
    LET s == ChangeDirection(g.Snake, action)
        turned == [g EXCEPT !.Snake = s]
        newHead == Coordinates(SnakeHead(s).Row + s.Direction.Row,
                               SnakeHead(s).Col + s.Direction.Col)
        grow == newHead = g.Food
        checked == IF grow THEN s.Body
                   ELSE IF Len(s.Body) > 1 THEN SubSeq(s.Body, 1, Len(s.Body) - 1)
                   ELSE <<>>
        collision == \E i \in DOMAIN checked : checked[i] = newHead
    IN  IF newHead.Row < 0 \/ newHead.Row >= g.Height
           \/ newHead.Col < 0 \/ newHead.Col >= g.Width
        THEN [game |-> [turned EXCEPT !.GameState = "GameOver"],
              newHead |-> Ref(newHead), grow |-> FALSE]
        ELSE IF collision
        THEN [game |-> [turned EXCEPT !.GameState = "GameOver"],
              newHead |-> Ref(newHead), grow |-> FALSE]
        ELSE [game |-> [turned EXCEPT !.Snake = Move(s, grow)],
              newHead |-> Ref(newHead), grow |-> grow]

NoUpdate == [len |-> 0, food |-> Coordinates(0, 0), newHead |-> Nil, state |-> "none"]

\* NewGame(width, height) up to its call of GenerateFood; Food is set when
\* GenerateFood returns.
InitSnakeVars ==
    /\ \E width \in 1..MaxSide, height \in 1..MaxSide :
        game = [Width |-> width, Height |-> height,
                Snake |-> NewSnake(height \div 2, width \div 2),
                Food |-> Coordinates(0, 0), GameState |-> "Running"]
    /\ gpc = "GenerateFood"
    /\ gprev = NoUpdate

IdleSnake ==
    /\ game = [Width |-> 0, Height |-> 0, Snake |-> NewSnake(0, 0),
               Food |-> Coordinates(0, 0), GameState |-> "none"]
    /\ gpc = "none"
    /\ gprev = NoUpdate

\* One turn of the loop of GenerateFood: a random cell, returned when the
\* snake is not on it.
GenerateFood ==
    /\ UNCHANGED nonSnakeVars
    /\ gpc = "GenerateFood"
    /\ \E food \in Board(game.Width, game.Height) :
        IF ~Contains(game.Snake, food)
        THEN /\ game' = [game EXCEPT !.Food = food]
             /\ gpc' = "ready"
        ELSE UNCHANGED <<game, gpc>>
    /\ UNCHANGED gprev

\* Game.Update(action), on a Game NewGame returned.
Update ==
    /\ UNCHANGED nonSnakeVars
    /\ gpc = "ready"
    /\ \E action \in Actions :
        LET r == UpdateGame(game, action)
        IN  /\ game' = r.game
            /\ gpc' = IF r.grow THEN "GenerateFood" ELSE "ready"
            /\ gprev' = [len |-> Len(game.Snake.Body), food |-> game.Food,
                         newHead |-> r.newHead, state |-> game.GameState]

NextSnake ==
    \/ GenerateFood
    \/ Update

\* ------------------------------------------------------- specifications
InitCodecSpec ==
    /\ InitCodec
    /\ IdleEpoch
    /\ IdleAna
    /\ IdleScore
    /\ IdleDuration
    /\ IdleBest
    /\ IdleNpz
    /\ IdleVector
    /\ IdleRunner
    /\ IdleSnake

InitEpochSpec ==
    /\ IdleCodec
    /\ InitEpochVars
    /\ IdleAna
    /\ IdleScore
    /\ IdleDuration
    /\ IdleBest
    /\ IdleNpz
    /\ IdleVector
    /\ IdleRunner
    /\ IdleSnake

InitAnalyticsSpec ==
    /\ IdleCodec
    /\ IdleEpoch
    /\ InitAnaVars
    /\ IdleScore
    /\ IdleDuration
    /\ IdleBest
    /\ IdleNpz
    /\ IdleVector
    /\ IdleRunner
    /\ IdleSnake

InitScoreSpec ==
    /\ IdleCodec
    /\ IdleEpoch
    /\ IdleAna
    /\ InitScoreVars
    /\ IdleDuration
    /\ IdleBest
    /\ IdleNpz
    /\ IdleVector
    /\ IdleRunner
    /\ IdleSnake

InitDurationSpec ==
    /\ IdleCodec
    /\ IdleEpoch
    /\ IdleAna
    /\ IdleScore
    /\ InitDurationVars
    /\ IdleBest
    /\ IdleNpz
    /\ IdleVector
    /\ IdleRunner
    /\ IdleSnake

InitBestSpec ==
    /\ IdleCodec
    /\ IdleEpoch
    /\ IdleAna
    /\ IdleScore
    /\ IdleDuration
    /\ InitBestVars
    /\ IdleNpz
    /\ IdleVector
    /\ IdleRunner
    /\ IdleSnake

InitNpzSpec ==
    /\ IdleCodec
    /\ IdleEpoch
    /\ IdleAna
    /\ IdleScore
    /\ IdleDuration
    /\ IdleBest
    /\ InitNpzVars
    /\ IdleVector
    /\ IdleRunner
    /\ IdleSnake

InitVectorSpec ==
    /\ IdleCodec
    /\ IdleEpoch
    /\ IdleAna
    /\ IdleScore
    /\ IdleDuration
    /\ IdleBest
    /\ IdleNpz
    /\ InitVectorVars
    /\ IdleRunner
    /\ IdleSnake

InitRunnerSpec ==
    /\ IdleCodec
    /\ IdleEpoch
    /\ IdleAna
    /\ IdleScore
    /\ IdleDuration
    /\ IdleBest
    /\ IdleNpz
    /\ IdleVector
    /\ InitRunnerVars
    /\ IdleSnake

InitSnakeSpec ==
    /\ IdleCodec
    /\ IdleEpoch
    /\ IdleAna
    /\ IdleScore
    /\ IdleDuration
    /\ IdleBest
    /\ IdleNpz
    /\ IdleVector
    /\ IdleRunner
    /\ InitSnakeVars

SpecCodec == InitCodecSpec /\ [][NextCodec]_vars

SpecEpoch == InitEpochSpec /\ [][NextEpoch]_vars

SpecAnalytics == InitAnalyticsSpec /\ [][NextAnalytics]_vars

SpecScore == InitScoreSpec /\ [][NextScore]_vars

SpecDuration == InitDurationSpec /\ [][NextDuration]_vars

SpecBest == InitBestSpec /\ [][NextBest]_vars

SpecNpz == InitNpzSpec /\ [][NextNpz]_vars

SpecVector == InitVectorSpec /\ [][NextVector]_vars

SpecRunner == InitRunnerSpec /\ [][NextRunner]_vars

SpecSnake == InitSnakeSpec /\ [][NextSnake]_vars

\* rand.Intn draws every cell again and again: a turn of the loop that finds
\* a free cell is taken when one stays possible.
SpecSnakeFair == SpecSnake /\ WF_vars(GenerateFood /\ gpc' = "ready")

\* ===================================================================== claims
AllChampionsFull(e) ==
    \A t \in DOMAIN e.Trials : \A g \in DOMAIN e.Trials[t].Generations :
        LET c == e.Trials[t].Generations[g].Champion
        IN  c # Nil /\ Deref(c).Genotype # Nil

\* Experiment.Read has returned, and not because the reader failed.
ReadReturned == pc \in {"done", "failed"} /\ err.cause # "io"

GenerationFields ==
    {"Id", "Executed", "Duration", "Solved", "Fitness", "Age", "Complexity",
     "Diversity", "WinnerEvals", "WinnerNodes", "WinnerGenes", "TrialId"}

OrganismStreamFields == {"Fitness", "IsWinner", "Generation", "ExpectedOffspring", "Error"}

SameStreamFields(a, b) ==
    /\ \A n \in GenerationFields : a[n] = b[n]
    /\ (a.Champion = Nil) = (b.Champion = Nil)
    /\ a.Champion # Nil /\ b.Champion # Nil =>
        /\ \A n \in OrganismStreamFields : Deref(a.Champion)[n] = Deref(b.Champion)[n]
        /\ Deref(a.Champion).Genotype = Deref(b.Champion).Genotype

SameTrials(a, b) ==
    /\ Len(a.Trials) = Len(b.Trials)
    /\ \A t \in DOMAIN a.Trials :
        /\ Len(a.Trials[t].Generations) = Len(b.Trials[t].Generations)
        /\ \A g \in DOMAIN a.Trials[t].Generations :
            SameStreamFields(a.Trials[t].Generations[g], b.Trials[t].Generations[g])

\* C1 as claimed: when every Generation has a Champion with a genome, Read of
\* what Write wrote succeeds and the receiver equals the original in every
\* field (RandSeed, MaxFitnessScore and every Champion field included).
C1_RoundTripEveryField ==
    (AllChampionsFull(exp) /\ ReadReturned) => (pc = "done" /\ dst = exp)

\* C1 as amended: under the same condition Read succeeds and the receiver has
\* the original's Id, Name, and in every Trial the same Generations with their
\* twelve fields and the Champion's Fitness, IsWinner, Generation,
\* ExpectedOffspring, Error and genome; the decoded Champion has no Species,
\* and Read never changes the receiver's RandSeed and MaxFitnessScore.
C1_RoundTripStreamFields ==
    /\ [] ((AllChampionsFull(exp) /\ ReadReturned) =>
            /\ pc = "done"
            /\ err = NoErr
            /\ dst.Id = exp.Id
            /\ dst.Name = exp.Name
            /\ SameTrials(dst, exp)
            /\ \A t \in DOMAIN dst.Trials : \A g \in DOMAIN dst.Trials[t].Generations :
                Deref(dst.Trials[t].Generations[g].Champion).Species = Nil)
    /\ [][/\ dst'.RandSeed = dst.RandSeed
          /\ dst'.MaxFitnessScore = dst.MaxFitnessScore]_vars

C1_Witness ==
    /\ pc = "done"
    /\ AllChampionsFull(exp)
    /\ Len(exp.Trials) = 2
    /\ \A t \in DOMAIN exp.Trials : Len(exp.Trials[t].Generations) = 2
    /\ SameTrials(dst, exp)
    /\ dst.RandSeed # exp.RandSeed

\* C2 as claimed: whether or not its Champion is present, a Generation is
\* written as twelve fields and one Champion record of seven values, so that
\* Read of what Write wrote succeeds and consumes exactly what was written.
C2_ChampionSlotAgrees ==
    ReadReturned =>
        /\ pc = "done"
        /\ pos = Len(stream)
        /\ \A t \in DOMAIN exp.Trials : \A g \in DOMAIN exp.Trials[t].Generations :
            Len(GenerationEncode(exp.Trials[t].Generations[g], t, g))
                = Len(GenDecodeOrder) + Len(OrgDecodeOrder)

\* C3: within a record, the field a dec.Decode call decodes into is the field
\* whose Encode call wrote the message it reads.
C3_FieldOrderSymmetric ==
    (/\ last.target.lvl \in {"gen", "org"}
     /\ last.origin.lvl = last.target.lvl
     /\ last.origin.t = last.target.t
     /\ last.origin.g = last.target.g)
    => last.origin.name = last.target.name

C3_Witness ==
    /\ pc = "done"
    /\ last.target = [lvl |-> "org", t |-> 2, g |-> 2, name |-> "data"]
    /\ last.origin = last.target

\* C4: once a step of a Decode has failed nothing more is read and nothing
\* more is stored: the error is handed from each Decode to its caller
\* unchanged until Read returns it, and a Read that returns nil met no error.
C4_DecodeAborts ==
    /\ [][err # NoErr =>
            /\ pos' = pos
            /\ err' = err
            /\ dst' = dst
            /\ pc' \in {"unwinding", "failed"}]_vars
    /\ [] (err # NoErr <=> pc \in {"unwinding", "failed"})
    /\ [] (pc = "unwinding" =>
            ENABLED (GenerationDecodeReturn \/ TrialDecodeReturn \/ ExperimentDecodeReturn))

C4_Witness ==
    /\ pc = "failed"
    /\ err.lvl = "org"
    /\ err.cause = "io"
    /\ cur.t = 2

\* C5 as claimed: the error of a failed field of the Experiment header, of a
\* Generation or of an Organism is wrapped with the name of that field.
C5_ErrorNamesField ==
    (err # NoErr /\ err.lvl \in {"exp", "gen", "org"} /\ err.field # "ReadGenome")
    => err.wrap = <<IF err.field = "data" THEN "organism's data" ELSE err.field>>

\* The greatest fitness among the organisms of a species.
RepFitness(sp) ==
    CHOOSE f \in {sp.Organisms[i].Fitness : i \in DOMAIN sp.Organisms} :
        \A i \in DOMAIN sp.Organisms : sp.Organisms[i].Fitness <= f

\* The first species among those whose representative is the fittest of all.
BestSpecies(p) ==
    CHOOSE i \in DOMAIN p.Species :
        /\ \A j \in DOMAIN p.Species : RepFitness(p.Species[j]) <= RepFitness(p.Species[i])
        /\ \A j \in DOMAIN p.Species : j < i => RepFitness(p.Species[j]) < RepFitness(p.Species[i])

\* g holds the statistics of population p: per species the fitness and the
\* complexity of one of its fittest organisms, and its age.
FilledFrom(g, p) ==
    /\ g.Diversity = Len(p.Species)
    /\ Len(g.Fitness) = Len(p.Species)
    /\ Len(g.Age) = Len(p.Species)
    /\ Len(g.Complexity) = Len(p.Species)
    /\ \A i \in DOMAIN p.Species :
        /\ g.Fitness[i] = RepFitness(p.Species[i])
        /\ g.Age[i] = p.Species[i].Age
        /\ \E k \in DOMAIN p.Species[i].Organisms :
            /\ p.Species[i].Organisms[k].Fitness = g.Fitness[i]
            /\ organismComplexity(p.Species[i].Organisms[k]) = g.Complexity[i]

\* C6: after FillPopulationStatistics, on a new Generation or on one filled
\* before, the three vectors and Diversity have the number of species.
C6_VectorLengths ==
    ephase = "filled" =>
        /\ Len(epoch.Fitness) = Len(pop.Species)
        /\ Len(epoch.Age) = Len(pop.Species)
        /\ Len(epoch.Complexity) = Len(pop.Species)
        /\ epoch.Diversity = Len(pop.Species)

C6_Witness ==
    /\ ephase = "filled"
    /\ epoch.Id = 3
    /\ epoch.Diversity = 2
    /\ Len(pop.Species[1].Organisms) = 2

\* C7 as claimed: when Solved is false, FillPopulationStatistics leaves as
\* Champion the representative of the first species among those whose
\* representative has the greatest fitness of all.
C7_ChampionIsGlobalBest ==
    (ephase = "filled" /\ ~epoch.Solved /\ Len(pop.Species) > 0) =>
        epoch.Champion = Ref(pop.Species[BestSpecies(pop)].Organisms[1])

\* The part of C7 the code keeps: the same, when some representative has a
\* fitness above the value maxFitness starts from.
C7_WhenAboveStart ==
    (/\ ephase = "filled"
     /\ ~epoch.Solved
     /\ \E i \in DOMAIN pop.Species : RepFitness(pop.Species[i]) > MinInt64Float)
    => epoch.Champion = Ref(pop.Species[BestSpecies(pop)].Organisms[1])

\* C8: when Solved is true on entry, FillPopulationStatistics keeps the
\* Champion and Solved, and fills Fitness, Age, Complexity and Diversity.
C8_SolvedKeepsChampion ==
    [][(FillPopulationStatistics /\ epoch.Solved) =>
            /\ epoch'.Champion = epoch.Champion
            /\ epoch'.Solved
            /\ FilledFrom(epoch', pop)]_vars

C8_Witness ==
    /\ ephase = "filled"
    /\ epoch.Solved
    /\ epoch.Id = 4
    /\ epoch.Champion = Ref(Winner)
    /\ Len(pop.Species) = 2
    /\ pop.Species[2].Organisms[1].Fitness > Winner.Fitness
    /\ epoch.Fitness = <<NegInf, 1>>

C10_SuccessRate ==
    rate # <<>> =>
        LET r == rate[1]
            n == Len(ana.Trials)
            k == Cardinality({t \in DOMAIN ana.Trials : TrialSolved(ana.Trials[t])})
        IN  /\ ~r.nan
            /\ r.den > 0
            /\ 0 <= r.num
            /\ r.num <= r.den
            /\ n = 0 => r.num = 0
            /\ n > 0 => r.num * n = k * r.den

C10_Witness ==
    /\ rate # <<>>
    /\ Len(ana.Trials) = 2
    /\ TrialSolved(ana.Trials[1])
    /\ ~TrialSolved(ana.Trials[2])
    /\ Len(ana.Trials[2].Generations) = 2
    /\ rate[1] = Div(1, 2)

IsOne(r) == ~r.nan /\ r.den # 0 /\ r.num = r.den

EveryTrialSolved(e) == \A t \in DOMAIN e.Trials : TrialSolved(e.Trials[t])

\* C11 as stated: for every Experiment, also one without Trials, SuccessRate
\* is 1 exactly when every Trial is solved.
C11_OneIffAllSolved ==
    rate # <<>> => (IsOne(rate[1]) <=> EveryTrialSolved(ana))

\* C11: for every Experiment with at least one Trial, SuccessRate is 1 exactly
\* when every Trial is solved; with no Trial it is 0, although every Trial
\* (there is none) is solved.
C11_OneIffAllSolvedOfSome ==
    rate # <<>> =>
        /\ Len(ana.Trials) > 0 => (IsOne(rate[1]) <=> EveryTrialSolved(ana))
        /\ Len(ana.Trials) = 0 => (rate[1] = Zero /\ EveryTrialSolved(ana))

C11_Witness ==
    /\ rate # <<>>
    /\ Len(ana.Trials) = 2
    /\ EveryTrialSolved(ana)
    /\ \E t \in DOMAIN ana.Trials : \E g \in DOMAIN ana.Trials[t].Generations :
            ~ana.Trials[t].Generations[g].Solved
    /\ IsOne(rate[1])

\* The float64 an EfficiencyScore result stands for is 0.
ReturnsZero(r) ==
    \/ r.kind = "penalty" /\ ~r.penalty.nan /\ r.penalty.num = 0
    \/ /\ r.kind = "score"
       /\ r.penalty.num # r.penalty.den
       /\ ~r.successRate.nan /\ ~r.fitnessScore.nan
       /\ r.successRate.num * r.fitnessScore.num = 0

\* C12: EfficiencyScore returns 0 for every Experiment of fewer than two
\* Trials, solved or not, whatever the durations, fitness and MaxFitnessScore.
C12_ZeroBelowTwoTrials ==
    \A k \in DOMAIN sres : Len(sexp.Trials) < 2 => ReturnsZero(sres[k])

C12_Witness ==
    /\ Len(sres) >= 1
    /\ Len(sexp.Trials) = 1
    /\ TrialSolved(sexp.Trials[1])
    /\ sexp.Trials[1].Generations[1].Duration = 2
    /\ sexp.MaxFitnessScore = 2
    /\ ReturnsZero(sres[1])

\* C13: whenever the penalty term is not strictly positive, EfficiencyScore
\* returns 0.
C13_ZeroWhenPenaltyNotPositive ==
    \A k \in DOMAIN sres : ~Positive(sres[k].penalty) => ReturnsZero(sres[k])

\* The part of C13 the code keeps: a penalty term of 0 is returned as 0.
C13_ZeroWhenPenaltyZero ==
    \A k \in DOMAIN sres :
        (~sres[k].penalty.nan /\ sres[k].penalty.num = 0) => ReturnsZero(sres[k])

FEq(a, b) ==
    IF a.nan \/ b.nan THEN a.nan /\ b.nan ELSE a.num * b.den = b.num * a.den

\* The winner generation of a solved Trial: the cached one, or the first
\* solved one.
WinnerOf(t) ==
    IF t.WinnerGeneration # Nil THEN t.Generations[Deref(t.WinnerGeneration)]
    ELSE t.Generations[CHOOSE g \in DOMAIN t.Generations :
                          /\ t.Generations[g].Solved
                          /\ \A h \in 1..(g - 1) : ~t.Generations[h].Solved]

SolvedTrials(e) == {t \in DOMAIN e.Trials : TrialSolved(e.Trials[t])}

SolvedComplexitySum(e) ==
    Sum([t \in DOMAIN e.Trials |->
            IF t \in SolvedTrials(e)
            THEN organismComplexity(Deref(WinnerOf(e.Trials[t]).Champion)) ELSE 0])

SolvedFitnessSum(e) ==
    Sum([t \in DOMAIN e.Trials |->
            IF t \in SolvedTrials(e)
            THEN Deref(WinnerOf(e.Trials[t]).Champion).Fitness ELSE 0])

\* C14: with two or more Trials, of which one at least is solved, the mean
\* complexity and the mean fitness EfficiencyScore uses are the sums over the
\* solved Trials of the winner generation's champion complexity and fitness,
\* divided by the number of solved Trials.
C14_MeansOverSolvedTrials ==
    \A k \in DOMAIN sres :
        (Len(sexp.Trials) >= 2 /\ SolvedTrials(sexp) # {}) =>
            LET n == Cardinality(SolvedTrials(sexp))
            IN  /\ FEq(sres[k].meanComplexity, FDiv(Rat(SolvedComplexitySum(sexp)), Rat(n)))
                /\ FEq(sres[k].meanFitness, FDiv(Rat(SolvedFitnessSum(sexp)), Rat(n)))

C14_Witness ==
    /\ Len(sres) >= 1
    /\ Len(sexp.Trials) = 2
    /\ SolvedTrials(sexp) = {1}
    /\ Len(sexp.Trials[2].Generations) = 2
    /\ sres[1].kind = "score"
    /\ FEq(sres[1].meanFitness, Rat(Deref(WinnerOf(sexp.Trials[1]).Champion).Fitness))
    /\ FEq(sres[1].successRate, Div(1, 2))

\* C15: once EfficiencyScore has run on an Experiment of two or more Trials,
\* every solved Trial of Experiment.Trials has its WinnerGeneration cached,
\* and a second call leaves the Experiment and the result as the first did.
C15_WinnerMemoizedOnTrial ==
    (Len(sres) >= 1 /\ Len(sexp.Trials) >= 2) =>
        /\ \A t \in SolvedTrials(sexp) : sexp.Trials[t].WinnerGeneration # Nil
        /\ Len(sres) >= 2 => sres[2] = sres[1]

\* What the code does instead: the winner generation is cached on the loop's
\* copy of each solved Trial.
C15_WinnerCachedOnCopy ==
    (Len(sres) >= 1 /\ Len(sexp.Trials) >= 2) =>
        /\ \A t \in SolvedTrials(sexp) : scopy[t].WinnerGeneration # Nil
        /\ Len(sres) >= 2 => sres[2] = sres[1]

AllDurations(e) ==
    Sum([t \in DOMAIN e.Trials |->
            Sum([g \in DOMAIN e.Trials[t].Generations |-> e.Trials[t].Generations[g].Duration])])

AllGenerations(e) == Sum([t \in DOMAIN e.Trials |-> Len(e.Trials[t].Generations)])

\* C16: AvgEpochDuration is the sum of the Duration of every Generation of
\* every Trial over the number of Generations (as a time.Duration, truncated),
\* also when the Trials differ in their number of Generations; it is the zero
\* duration when there is no Trial.
C16_MeanOverAllEpochs ==
    dres # <<>> =>
        /\ Len(dexp.Trials) = 0 => dres[1] = 0
        /\ AllGenerations(dexp) > 0 =>
               dres[1] = Quot(AllDurations(dexp), AllGenerations(dexp))

BestFitness(t, g) == Deref(bexp.Trials[t].Generations[g].Champion).Fitness

\* C17: BestOrganism(onlySolvers) returns not found (nil, -1, false) exactly
\* when no Trial has a qualifying candidate, whatever the fitness of the
\* organisms that do not qualify; otherwise it returns a qualifying organism of
\* the highest fitness and the index of the Trial that holds it.
C17_BestOrganism ==
    bres # <<>> =>
        LET r == bres[1]
            candidates(t) == TrialCandidates(bexp.Trials[t], barg[1])
        IN  /\ r.found <=> \E t \in DOMAIN bexp.Trials : candidates(t) # {}
            /\ ~r.found => (r.organism = Nil /\ r.trial = 0 - 1)
            /\ r.found =>
                /\ r.trial + 1 \in DOMAIN bexp.Trials
                /\ \E g \in candidates(r.trial + 1) :
                      bexp.Trials[r.trial + 1].Generations[g].Champion = r.organism
                /\ \A t \in DOMAIN bexp.Trials : \A g \in candidates(t) :
                      Deref(r.organism).Fitness >= BestFitness(t, g)

C17_Witness ==
    /\ bres # <<>>
    /\ barg = <<TRUE>>
    /\ Len(bexp.Trials) = 2
    /\ Len(bexp.Trials[1].Generations) = 1
    /\ BestFitness(1, 1) = 3
    /\ Len(bexp.Trials[2].Generations) = 2
    /\ BestFitness(2, 1) = 1
    /\ BestFitness(2, 2) = 2
    /\ bres[1].found
    /\ bres[1].trial = 1
    /\ Deref(bres[1].organism).Fitness = 2

C17_WitnessNotFound ==
    /\ bres # <<>>
    /\ barg = <<TRUE>>
    /\ Len(bexp.Trials) = 2
    /\ \E t \in DOMAIN bexp.Trials : \E g \in DOMAIN bexp.Trials[t].Generations :
            BestFitness(t, g) = 3
    /\ bres[1] = NotFound

GeneralNames == <<"trials_number", "trials_fitness", "trials_ages", "trials_complexity">>

SeriesNames ==
    <<"epoch_mean_fitnesses", "epoch_mean_ages", "epoch_mean_complexities",
      "epoch_best_fitnesses", "epoch_best_ages", "epoch_best_complexities",
      "epoch_diversity">>

NpzTotal == 4 + 7 * Len(nexp.Trials)

NpzSucceeded == npc = "returned" /\ nret = <<NilError>>

\* C18: a successful WriteNPZ of an Experiment of T >= 1 Trials has written
\* 4 + 7*T arrays of distinct names: trials_number (the value T), the three
\* T x 2 matrices, then for each Trial i = 0..T-1 in order its seven series,
\* each as long as the Trial has Generations.
C18_ArchiveLayout ==
    (NpzSucceeded /\ Len(nexp.Trials) >= 1) =>
        LET T == Len(nexp.Trials)
        IN  /\ Len(nout) = 4 + 7 * T
            /\ \A k \in 1..4 : nout[k].name = [trial |-> 0 - 1, series |-> GeneralNames[k]]
            /\ nout[1].data = <<T>> /\ nout[1].rows = 1
            /\ \A k \in 2..4 : nout[k].rows = T /\ nout[k].cols = 2
            /\ \A i \in 0..(T - 1) : \A j \in 1..7 :
                  /\ nout[4 + 7 * i + j].name = [trial |-> i, series |-> SeriesNames[j]]
                  /\ nout[4 + 7 * i + j].rows = Len(nexp.Trials[i + 1].Generations)
                  /\ nout[4 + 7 * i + j].cols = 1
            /\ \A k, l \in DOMAIN nout : k # l => nout[k].name # nout[l].name

C18_Witness ==
    /\ NpzSucceeded
    /\ Len(nexp.Trials) = 2
    /\ Len(nexp.Trials[1].Generations) = 2
    /\ Len(nexp.Trials[2].Generations) = 1
    /\ Len(nout) = 18
    /\ nout[18].name = [trial |-> 1, series |-> "epoch_diversity"]
    /\ nout[18].rows = 1
    /\ nout[5].rows = 2

NpzAborts ==
    /\ ncloses <= 1
    /\ \A r \in {nret[x] : x \in DOMAIN nret} :
          /\ r.kind = "write" => (r.at = nk /\ Len(nout) = nk - 1 /\ ncloses = 0)
          /\ r.kind = "nil" => (ncloses = 1 /\ Len(nout) = NpzTotal)
          /\ r.kind \in {"write", "close", "nil"}
    /\ ncloses = 1 => (Len(nout) = NpzTotal /\ nk = NpzTotal /\ nret # <<>>)

\* C19: the first out.Write that fails ends WriteNPZ: its error is returned, no
\* further array is written and the archive is not closed; the archive is
\* closed once, after all 4 + 7*T writes succeeded, and WriteNPZ returns nil
\* only when that close succeeded.
C19_ExportAborts ==
    /\ []NpzAborts
    /\ [][npc = "returned" => (nout' = nout /\ nk' = nk /\ ncloses' = ncloses /\ nret' = nret)]_vars

C19_Witness ==
    /\ npc = "returned"
    /\ Len(nexp.Trials) = 2
    /\ nret = <<[kind |-> "write", at |-> 6]>>
    /\ Len(nout) = 5
    /\ nk = 6
    /\ ncloses = 0

Products(a, b) == [i \in DOMAIN a |-> a[i] * b[i]]

\* C20: on operands of equal length n, Add returns no error and a vector of
\* length n of the sums v[i] + other[i], and Dot no error and the sum of the
\* products v[i] * other[i]; on operands of different lengths both return an
\* error with the empty Vector / 0; the operands are as they were.
C20_AddAndDot ==
    vres # <<>> =>
        LET c == vcall[1]
            r == vres[1]
            a == c.v.Values
            b == c.other.Values
        IN  /\ vv = c.v /\ vother = c.other
            /\ Len(a) = Len(b) =>
                  /\ r.err = "nil"
                  /\ c.op = "Add" =>
                        /\ Len(r.value.Values) = Len(a)
                        /\ \A i \in DOMAIN a : r.value.Values[i] = a[i] + b[i]
                  /\ c.op = "Dot" => r.value = Sum(Products(a, b))
            /\ Len(a) # Len(b) =>
                  /\ r.err # "nil"
                  /\ c.op = "Add" => r.value = EmptyVector
                  /\ c.op = "Dot" => r.value = 0

C20_Witness ==
    /\ vres # <<>>
    /\ vcall[1].op = "Dot"
    /\ vv.Values = <<2, 0 - 1>>
    /\ vother.Values = <<2, 2>>
    /\ vres[1] = [value |-> 2, err |-> "nil"]

C20_WitnessMismatch ==
    /\ vres # <<>>
    /\ vcall[1].op = "Add"
    /\ Len(vv.Values) = 1
    /\ Len(vother.Values) = 2
    /\ vres[1] = [value |-> EmptyVector, err |-> LengthError]

\* C21: when no termination signal arrives, the result the executor goroutine
\* sends on errChan is received by main, which goes on to PrintStatistics or
\* to log.Fatalf: main is never left waiting on errChan with no sender.
C21_MainReceivesResult ==
    (rsig = "none" /\ rexec = "returned") => rmain \in {"statistics", "fatal"}

\* What the code keeps: the result is received once, by main or by the
\* handler's select.
C21_ResultReceivedOnce ==
    rexec = "returned" =>
        /\ rerr = rret
        /\ (rmain \in {"statistics", "fatal"}) # (rhandler = "returned" /\ rsig # "taken")

\* Trial a is trial b as the stream carries it.
SameGenerations(a, b) ==
    /\ Len(a.Generations) = Len(b.Generations)
    /\ \A g \in DOMAIN a.Generations : SameStreamFields(a.Generations[g], b.Generations[g])

\* The number of fields a failed Generation.Decode had decoded: those before
\* the failing one, or all twelve when decodeOrganism failed.
FieldsDecoded ==
    IF err.lvl = "org" THEN Len(GenDecodeOrder)
    ELSE (CHOOSE i \in DOMAIN GenDecodeOrder : GenDecodeOrder[i] = err.field) - 1

\* C22: when Experiment.Decode fails while decoding trial k of the n the
\* stream announces, the receiver has the stream's Id and Name and n Trials,
\* of which those before k are the decoded ones and the others are zero
\* Trials; and a failed Generation.Decode leaves in its receiver the fields
\* decoded before the failing one, the other fields and Champion as they were.
C22_ReceiverNotRestored ==
    /\ (pc = "failed" /\ err.lvl \in {"trial", "gen", "org"}) =>
        /\ dst.Id = exp.Id
        /\ dst.Name = exp.Name
        /\ Len(dst.Trials) = Len(exp.Trials)
        /\ cur.t \in DOMAIN dst.Trials
        /\ \A i \in DOMAIN dst.Trials :
            IF i < cur.t THEN SameGenerations(dst.Trials[i], exp.Trials[i])
            ELSE dst.Trials[i] = ZeroTrial
    /\ (pc \in {"unwinding", "failed"} /\ err.lvl \in {"gen", "org"}) =>
        /\ \A i \in DOMAIN GenDecodeOrder :
            LET name == GenDecodeOrder[i]
            IN  gen[name] = IF i <= FieldsDecoded
                            THEN exp.Trials[cur.t].Generations[cur.g][name]
                            ELSE ZeroGeneration[name]
        /\ gen.Champion = Nil

\* Trial 2 of 2 fails at the Age of its second generation, on a receiver used before.
C22_Witness ==
    /\ pc = "failed"
    /\ err.lvl = "gen"
    /\ err.field = "Age"
    /\ dst.RandSeed = UsedExperiment.RandSeed
    /\ Len(exp.Trials) = 2
    /\ cur.t = 2
    /\ cur.g = 2
    /\ Len(dst.Trials[1].Generations) = 2
    /\ dst.Trials[2] = ZeroTrial
    /\ gen.Fitness # <<>>
    /\ gen.Age = <<>>

\* C23: in every state of a game, the cells of the snake's body are inside the
\* board and pairwise distinct and the body is not empty; an Update leaves the
\* body one cell longer when the new head it computed is the food cell, and as
\* long as it was otherwise; between two Updates the food is on the board and
\* not on the snake.
C23_SnakeInvariant ==
    LET body == game.Snake.Body
    IN  /\ Len(body) >= 1
        /\ \A i \in DOMAIN body : body[i] \in Board(game.Width, game.Height)
        /\ \A i, j \in DOMAIN body : i # j => body[i] # body[j]
        /\ gprev.state # "none" =>
            Len(body) = gprev.len + (IF gprev.newHead = Ref(gprev.food) THEN 1 ELSE 0)
        /\ gpc = "ready" => game.Food \in FreeCells(game)

\* An Update has eaten the food with a snake of three cells that has turned twice.
C23_Witness ==
    /\ gpc = "ready"
    /\ game.GameState = "Running"
    /\ gprev.newHead = Ref(gprev.food)
    /\ gprev.len = 3
    /\ Len(game.Snake.Body) = 4
    /\ game.Snake.Body[1].Row # game.Snake.Body[3].Row
    /\ game.Snake.Body[1].Col # game.Snake.Body[3].Col

\* An Update that computed no new head, or one that is not the food cell,
\* leaves the snake as long as it was.
C23_WitnessSameLength ==
    /\ gpc = "ready"
    /\ gprev.newHead # Nil
    /\ gprev.newHead # Ref(gprev.food)
    /\ gprev.len = 3
    /\ game.GameState = "Running"

\* C24: whenever an Update has eaten the food, GenerateFood has a board cell
\* the snake is not on to find, so that its loop ends and Update returns, also
\* when the grown snake is on every cell of the board.
C24_FoodHasFreeCell ==
    (gpc = "GenerateFood" /\ gprev.state # "none") => FreeCells(game) # {}

\* What the code keeps: while a free cell exists GenerateFood returns, and no
\* Update makes GameState Winner.
C24_FoodFoundWhenFree ==
    (gpc = "GenerateFood" /\ FreeCells(game) # {}) ~> (gpc = "ready")

C24_NeverWinner == game.GameState # "Winner"

====
